---- MODULE Spec2Model ----
(***************************************************************************)
(* wspy: the connection state machine of connection.py on top of the       *)
(* frame layer of frame.py and the transport wrapper of websocket.py.      *)
(*                                                                         *)
(* A frame is a record of the fields Frame.__init__ sets and of its class; *)
(* payloads and masking keys are sequences of byte values.  The transport  *)
(* is seen at frame granularity: `wire' is the sequence of frames handed   *)
(* to websocket.send, the peer's frames are chosen one at a time where the *)
(* code blocks in websocket.recv.                                          *)
(*                                                                         *)
(* The handlers are operators over a record of the connection's fields     *)
(* (the `self' of the methods); its field `exc' holds the exception that   *)
(* is propagating, "" when none is.  Each action applies a whole handler   *)
(* to the current fields and commits the result.                           *)
(*                                                                         *)
(* The HTTP handshakes of websocket.py and of handshake.py are operators   *)
(* over a websocket record and the peer's HTTP message: its first line, a  *)
(* string, and the (name, value) pairs of its header lines.                *)
(***************************************************************************)
EXTENDS Integers, Sequences, FiniteSets, TLC

\* ------------------------------------------------------------------ bounds
MaxIn == 3          \* frames the peer sends
MaxOps == 2         \* calls the user makes on the main thread
MaxSOps == 1        \* calls made on the second thread

\* --------------------------------------------------------- frame.py values
OPCODE_CONTINUATION == 0
OPCODE_TEXT == 1
OPCODE_BINARY == 2
OPCODE_CLOSE == 8
OPCODE_PING == 9
OPCODE_PONG == 10
CLOSE_NORMAL == 1000
CLOSE_PROTOCOL_ERROR == 1002
MaxControlPayload == 125

\* Python values that a close code takes: None, an int, or the 1-tuple that
\* struct.unpack returns.
PyNone == [t |-> "None", v |-> 0]
PyInt(n) == [t |-> "int", v |-> n]
PyTuple1(n) == [t |-> "tuple", v |-> n]

\* An optional byte string (ping_payload is None or a payload).
NoPayload == [some |-> FALSE, v |-> <<>>]
SomePayload(p) == [some |-> TRUE, v |-> p]

\* Frame.__init__ with its defaults: no masking key, rsv bits clear
Frame(opcode, payload, final) ==
    [cls |-> "Frame", opcode |-> opcode, payload |-> payload, final |-> final,
     masking_key |-> <<>>, rsv1 |-> FALSE, rsv2 |-> FALSE, rsv3 |-> FALSE]

ControlFrame(opcode, payload) ==
    [Frame(opcode, payload, TRUE) EXCEPT !.cls = "ControlFrame"]

\* isinstance(frame, ControlFrame)
IsControlFrame(frame) == frame.cls = "ControlFrame"

\* struct.pack('!H', n) and struct.unpack('!H', b)
PackH(n) == <<n \div 256, n % 256>>
UnpackH(b) == b[1] * 256 + b[2]

\* ControlFrame.unpack_close: [exc, code, reason]
unpack_close(frame) ==
    IF Len(frame.payload) = 0
    THEN [exc |-> "", code |-> PyNone, reason |-> <<>>]
    ELSE IF Len(frame.payload) < 2
    THEN [exc |-> "struct.error", code |-> PyNone, reason |-> <<>>]
    ELSE [exc |-> "",
          code |-> PyTuple1(UnpackH(SubSeq(frame.payload, 1, 2))),
          reason |-> SubSeq(frame.payload, 3, Len(frame.payload))]

\* create_close_frame: [exc, frame]; a status code is encoded as 16 bits
\* big-endian followed by the reason, no code gives an empty payload.
create_close_frame(code, reason) ==
    IF code.t = "None"
    THEN [exc |-> "", frame |-> ControlFrame(OPCODE_CLOSE, <<>>)]
    ELSE IF code.t = "int" /\ code.v \in 0..65535
    THEN [exc |-> "",
          frame |-> ControlFrame(OPCODE_CLOSE, PackH(code.v) \o reason)]
    ELSE [exc |-> "struct.error", frame |-> ControlFrame(OPCODE_CLOSE, <<>>)]

Min(a, b) == IF a < b THEN a ELSE b

\* Frame.fragment: [exc, frames]; masking_key is what urandom(4) gives when
\* mask is set and empty when it is not
fragment(frame, fragment_size, masking_key) ==
    LET n == Len(frame.payload)
        starts == {k \in 0..(n - 1) : k % fragment_size = 0}
        count == Cardinality(starts)
        frames == [i \in 1..count |->
                     [Frame(IF i = 1 THEN frame.opcode
                                     ELSE OPCODE_CONTINUATION,
                            SubSeq(frame.payload,
                                   (i - 1) * fragment_size + 1,
                                   Min(i * fragment_size, n)),
                            i = count)
                      EXCEPT !.masking_key = masking_key]]
    IN  IF count = 0
        THEN [exc |-> "IndexError", frames |-> <<>>]
        ELSE [exc |-> "", frames |-> frames]

\* ------------------------------------------------------ message.py values
Message(opcode, payload) == [opcode |-> opcode, payload |-> payload]
NoMessage == [opcode |-> -1, payload |-> <<>>]

OPCODE_CLASS_MAP ==
    {OPCODE_TEXT, OPCODE_BINARY, OPCODE_CLOSE, OPCODE_PING, OPCODE_PONG}

\* create_message: [exc, message]; the class map itself is called
create_message(opcode, payload) ==
    IF opcode \in OPCODE_CLASS_MAP
    THEN [exc |-> "TypeError", message |-> NoMessage]
    ELSE [exc |-> "", message |-> Message(opcode, payload)]

\* ------------------------------------------------------------- callbacks
Ev(cb, code, data, e) == [cb |-> cb, code |-> code, data |-> data, exc |-> e]

\* 'error: %s' % e, the reason passed to onclose by receive_forever
ErrorReason == <<101, 114, 114, 111, 114, 58, 32>>

Raise(s, e) == [s EXCEPT !.exc = e]
Call(s, ev) == [s EXCEPT !.events = Append(@, ev)]

\* a close() that leaves the socket as it is
sock_close_not(s) == [s EXCEPT !.closes = Append(@, Len(s.events))]

\* socket.close() of websocket.close; closes keeps, for every call, the
\* number of callbacks invoked before it
sock_close(s) ==
    [s EXCEPT !.sock = "closed", !.closes = Append(@, Len(s.events))]

\* ------------------------------------------- connection.py: the handlers
\* The connection as a record: the fields of `self', the transport's state
\* (sock: "open", "shut_wr" after shutdown(SHUT_WR), "closed"), the frames
\* written so far, the callbacks invoked so far and the exception in flight.

NoCloseParams == [set |-> FALSE, code |-> PyNone, reason |-> <<>>]

\* a send whose pack() accepts every payload
sock_send_unchecked(s, frame) ==
    IF s.sock # "open"
    THEN Raise(s, "socket.error")
    ELSE [s EXCEPT !.wire = Append(@, frame)]

\* websocket.send for one frame: pack() runs before sendall()
sock_send(s, frame) ==
    IF IsControlFrame(frame) /\ Len(frame.payload) > MaxControlPayload
    THEN Raise(s, "ValueError")
    ELSE IF s.sock # "open"
    THEN Raise(s, "socket.error")
    ELSE [s EXCEPT !.wire = Append(@, frame)]

\* Connection.send_frame; callback is "" or the name of the callback
send_frame(s, frame, callback) ==
    LET s1 == sock_send(s, frame)
    IN  IF s1.exc # "" \/ callback = ""
        THEN s1
        ELSE Call(s1, Ev(callback, PyNone, frame.payload, ""))

\* a shutdown_write that closes the socket and then invokes onclose
shutdown_write_close_first(s) ==
    IF s.close_frame_received
    THEN IF ~s.close_params.set
         THEN Raise(s, "AttributeError")
         ELSE Raise(Call(sock_close(s), Ev("onclose", s.close_params.code,
                                          s.close_params.reason, "")),
                    "SocketClosed")
    ELSE IF s.sock = "closed"
    THEN Raise(s, "socket.error")
    ELSE [s EXCEPT !.sock = "shut_wr"]

\* Connection.shutdown_write
shutdown_write(s) ==
    IF s.close_frame_received
    THEN IF ~s.close_params.set
         THEN Raise(s, "AttributeError")
         ELSE Raise(sock_close(Call(s, Ev("onclose", s.close_params.code,
                                          s.close_params.reason, ""))),
                    "SocketClosed")
    ELSE IF s.sock = "closed"
    THEN Raise(s, "socket.error")
    ELSE [s EXCEPT !.sock = "shut_wr"]

\* Connection.send_close_frame
send_close_frame(s, code, reason) ==
    LET c == create_close_frame(code, reason)
        s1 == IF c.exc # "" THEN Raise(s, c.exc)
                            ELSE send_frame(s, c.frame, "")
    IN  IF s1.exc # ""
        THEN s1
        ELSE shutdown_write([s1 EXCEPT !.close_frame_sent = TRUE])

\* handle_control_frame, opcode CLOSE
handle_close(s, frame) ==
    LET s1 == [s EXCEPT !.close_frame_received = TRUE]
        u == unpack_close(frame)
    IN  IF u.exc # ""
        THEN Raise(s1, u.exc)
        ELSE IF s1.close_frame_sent
        THEN Raise(sock_close(Call(s1, Ev("onclose", u.code, u.reason, ""))),
                   "SocketClosed")
        ELSE send_close_frame(
                 [s1 EXCEPT !.close_params =
                     [set |-> TRUE, code |-> u.code, reason |-> u.reason]],
                 u.code, u.reason)

\* a reply that drops the payload
pong_reply_empty(frame) == ControlFrame(OPCODE_PONG, <<>>)

\* handle_control_frame, opcode PING: the reply
pong_reply(frame) == ControlFrame(OPCODE_PONG, frame.payload)

handle_ping(s, frame) == send_frame(s, pong_reply(frame), "")

\* a PONG handler that does not compare the payloads
handle_pong_any_payload(s, frame) ==
    IF ~s.ping_sent
    THEN Raise(s, "PingError")
    ELSE Call([s EXCEPT !.ping_sent = FALSE, !.ping_payload = NoPayload],
              Ev("onpong", PyNone, frame.payload, ""))

\* handle_control_frame, opcode PONG
handle_pong(s, frame) ==
    IF ~s.ping_sent
    THEN Raise(s, "PingError")
    ELSE LET s1 == [s EXCEPT !.ping_sent = FALSE]
         IN  IF SomePayload(frame.payload) # s1.ping_payload
             THEN Raise(s1, "PingError")
             ELSE Call([s1 EXCEPT !.ping_payload = NoPayload],
                       Ev("onpong", PyNone, frame.payload, ""))

\* a handler that answers every control frame it does not know as a PING
handle_control_frame_answers(s, frame) ==
    IF frame.opcode = OPCODE_CLOSE THEN handle_close(s, frame)
    ELSE IF frame.opcode = OPCODE_PONG THEN handle_pong(s, frame)
    ELSE handle_ping(s, frame)

\* Connection.handle_control_frame
handle_control_frame(s, frame) ==
    IF frame.opcode = OPCODE_CLOSE THEN handle_close(s, frame)
    ELSE IF frame.opcode = OPCODE_PING THEN handle_ping(s, frame)
    ELSE IF frame.opcode = OPCODE_PONG THEN handle_pong(s, frame)
    ELSE s

\* Connection.concat_fragments: [exc, message]; no hooks are installed
RECURSIVE concat_payloads(_)
concat_payloads(fragments) ==
    IF fragments = <<>> THEN <<>>
    ELSE Head(fragments).payload \o concat_payloads(Tail(fragments))

concat_fragments(fragments) ==
    create_message(fragments[1].opcode, concat_payloads(fragments))

\* a recv that accepts any data frame
is_fragment_violation_never(fragments, frame) == FALSE

\* recv: a data frame that may not follow the fragments collected so far
is_fragment_violation(fragments, frame) ==
    Len(fragments) > 0 /\ frame.opcode # OPCODE_CONTINUATION

\* Connection.recv, one turn of the loop for the frame sock.recv() gave:
\* [s, fragments, done, message]; done when recv returns or raises
recv_frame(s, fragments, frame) ==
    IF IsControlFrame(frame)
    THEN LET s1 == handle_control_frame(s, frame)
         IN  [s |-> s1, fragments |-> IF s1.exc # "" THEN <<>> ELSE fragments,
              done |-> s1.exc # "", message |-> NoMessage]
    ELSE IF is_fragment_violation(fragments, frame)
    THEN [s |-> Raise(s, "ValueError"), fragments |-> <<>>,
          done |-> TRUE, message |-> NoMessage]
    ELSE LET fr == Append(fragments, frame)
         IN  IF ~frame.final
             THEN [s |-> s, fragments |-> fr, done |-> FALSE,
                   message |-> NoMessage]
             ELSE LET m == concat_fragments(fr)
                  IN  [s |-> Raise(s, m.exc), fragments |-> <<>>,
                       done |-> TRUE, message |-> m.message]

\* websocket.recv / receive_frame / recvn: the peer's end of stream is the
\* frame EOF; a closed socket cannot be read
EOF == Frame(-1, <<>>, TRUE)

sock_recv(s, in) ==
    IF s.sock = "closed" THEN Raise(s, "socket.error")
    ELSE IF in = EOF THEN Raise(s, "SocketClosed")
    ELSE s

\* Connection.recv from the sock.recv() call to the end of that loop turn
recv(s, fragments, in) ==
    LET s1 == sock_recv(s, in)
    IN  IF s1.exc # ""
        THEN [s |-> s1, fragments |-> <<>>, done |-> TRUE,
              message |-> NoMessage]
        ELSE recv_frame(s1, fragments, in)

\* except clauses that take SocketClosed for an error
receive_forever_except_all(s, e) ==
    Raise(sock_close(Call(Call(s, Ev("onerror", PyNone, <<>>, e)),
                          Ev("onclose", PyNone, ErrorReason, e))),
          e)

\* receive_forever: the except clauses, e is the exception caught
receive_forever_except(s, e) ==
    IF e = "SocketClosed"
    THEN Raise(s, "")
    ELSE Raise(sock_close(Call(Call(s, Ev("onerror", PyNone, <<>>, e)),
                               Ev("onclose", PyNone, ErrorReason, e))),
               e)

\* receive_forever, one turn of the loop: onmessage(recv()) in the try;
\* cb_raises says whether the user's onmessage raises.
\* [s, fragments, done]
receive_forever(s, fragments, in, cb_raises) ==
    LET r == recv(s, fragments, in)
    IN  IF ~r.done
        THEN [s |-> r.s, fragments |-> r.fragments, done |-> FALSE]
        ELSE IF r.s.exc # ""
        THEN [s |-> receive_forever_except(Raise(r.s, ""), r.s.exc),
              fragments |-> <<>>, done |-> TRUE]
        ELSE LET s1 == Call(r.s, Ev("onmessage", PyInt(r.message.opcode),
                                    r.message.payload, ""))
             IN  IF cb_raises
                 THEN [s |-> receive_forever_except(s1, "CallbackError"),
                       fragments |-> <<>>, done |-> TRUE]
                 ELSE [s |-> s1, fragments |-> <<>>, done |-> FALSE]

\* Connection.message_to_frames: [exc, frames]; fragment_size 0 stands for
\* None, where message.frame(mask=mask) is called; no hooks are installed
message_to_frames(message, fragment_size, masking_key) ==
    IF fragment_size = 0
    THEN [exc |-> "TypeError", frames |-> <<>>]
    ELSE fragment(Frame(message.opcode, message.payload, TRUE), fragment_size,
                  masking_key)

RECURSIVE send_frames(_, _)
send_frames(s, frames) ==
    IF frames = <<>> \/ s.exc # "" THEN s
    ELSE send_frames(send_frame(s, Head(frames), ""), Tail(frames))

\* Connection.send
send(s, message, fragment_size, masking_key) ==
    LET g == message_to_frames(message, fragment_size, masking_key)
    IN  IF g.exc # "" THEN Raise(s, g.exc) ELSE send_frames(s, g.frames)

\* Connection.send_ping
send_ping(s, payload) ==
    LET s1 == send_frame(s, ControlFrame(OPCODE_PING, payload), "onping")
    IN  IF s1.exc # "" THEN s1
        ELSE [s1 EXCEPT !.ping_payload = SomePayload(payload),
                        !.ping_sent = TRUE]

\* Connection.close up to the sock.recv() call
close_send(s, code, reason) == send_close_frame(s, code, reason)

\* Connection.close from the sock.recv() call on: always done
close_recv(s, in) ==
    LET s1 == sock_recv(s, in)
    IN  IF s1.exc # "" THEN s1
        ELSE IF in.opcode # OPCODE_CLOSE THEN Raise(s1, "ValueError")
        ELSE handle_control_frame(s1, in)

\* ------------------------------------------------------------ the state
VARIABLES
    close_frame_sent, close_frame_received, close_params,
    ping_sent, ping_payload,    \* Connection.__init__
    sock,           \* the transport: "open", "shut_wr", "closed"
    wire,           \* frames written to the transport, in order
    events,         \* callbacks invoked, in order
    closes,         \* for each sock.close() call, in order: how many
                    \* callbacks had been invoked when it was made
    peer_eof,       \* the peer has closed its end of the stream
    pc,             \* main thread: "idle" or the method it is blocked in
    fragments,      \* recv's local list
    exc,            \* exception the last finished call raised, "" if none
    result,         \* message the last recv() call returned
    last_op,        \* the method last called on the main thread
    last_recv,      \* the frame sock.recv() gave last
    nrecv, nops,    \* frames received, calls made on the main thread
    s_pc,           \* second thread: "idle", "send", "ping_written",
                    \* "ping_payload_set"
    s_queue,        \* second thread: frames send() has still to write
    s_done,         \* second thread: frames send() has written
    s_arg,          \* second thread: payload of the running send_ping
    s_exc,          \* second thread: exception of its last finished call
    s_nops,         \* calls made on the second thread
    role,           \* the end point the connection's websocket is: "client"
                    \* after connect(), "server" after accept()
    call,           \* frame.py, extension.py: the function applied and its
                    \* arguments
    ret,            \* frame.py, extension.py: what the function returned
    wsock,          \* handshake: the websocket that shakes hands
    listener,       \* handshake: the websocket accept() is called on
    http_in,        \* handshake: the HTTP message the peer has sent
    http_out,       \* handshake: the HTTP messages written to the socket
    hs              \* handshake: the call made, its arguments and the
                    \* exception it raised

conn_vars == <<close_frame_sent, close_frame_received, close_params,
               ping_sent, ping_payload, sock, wire, events, closes>>
main_vars == <<peer_eof, pc, fragments, exc, result, last_op, last_recv,
               nrecv, nops>>
s_vars == <<s_pc, s_queue, s_done, s_arg, s_exc, s_nops>>
lib_vars == <<call, ret>>
hs_vars == <<wsock, listener, http_in, http_out, hs>>
ext_vars == <<role, lib_vars, hs_vars>>
vars == <<conn_vars, main_vars, s_vars, ext_vars>>

\* the connection's fields as the record the handlers work on
Cur ==
    [close_frame_sent |-> close_frame_sent,
     close_frame_received |-> close_frame_received,
     close_params |-> close_params,
     ping_sent |-> ping_sent, ping_payload |-> ping_payload,
     sock |-> sock, wire |-> wire, events |-> events, closes |-> closes,
     exc |-> ""]

Commit(s) ==
    /\ close_frame_sent' = s.close_frame_sent
    /\ close_frame_received' = s.close_frame_received
    /\ close_params' = s.close_params
    /\ ping_sent' = s.ping_sent
    /\ ping_payload' = s.ping_payload
    /\ sock' = s.sock
    /\ wire' = s.wire
    /\ events' = s.events
    /\ closes' = s.closes

\* ------------------------------------------------------------ the inputs
Payloads == {<<1>>, <<2>>}
FirstOpcodes == {OPCODE_TEXT, 3}
ClosePayloads == {<<>>, PackH(CLOSE_NORMAL), <<3>>}
ReservedControlOpcodes == {11}

\* first fragments carry <<1>>, continuations <<2>>
InFrames ==
    {Frame(o, <<1>>, f) : o \in FirstOpcodes, f \in BOOLEAN}
    \cup {Frame(OPCODE_CONTINUATION, <<2>>, f) : f \in BOOLEAN}
    \cup {ControlFrame(o, p) : o \in {OPCODE_PING, OPCODE_PONG}, p \in Payloads}
    \cup {ControlFrame(OPCODE_CLOSE, p) : p \in ClosePayloads}
    \cup {ControlFrame(o, <<>>) : o \in ReservedControlOpcodes}

\* what a sock.recv() call can give
Inputs == IF peer_eof THEN {EOF} ELSE InFrames \cup {EOF}

OutMessages == {Message(OPCODE_TEXT, <<>>), Message(OPCODE_TEXT, <<1, 2>>)}
FragmentSizes == {0, 1, 2}
CloseArgs == {<<PyNone, <<>>>>, <<PyInt(CLOSE_NORMAL), <<>>>>}

\* what urandom(4) gives
MaskingKeys == {<<55, 250, 33, 61>>}

\* the masking key of the frames send() makes: mask is set by a client
MaskArgs == IF role = "client" THEN MaskingKeys ELSE {<<>>}

\* Connection.__init__
ConnInit ==
    /\ close_frame_sent = FALSE
    /\ close_frame_received = FALSE
    /\ close_params = NoCloseParams
    /\ ping_sent = FALSE
    /\ ping_payload = NoPayload
    /\ sock = "open"
    /\ wire = <<>>
    /\ events = <<Ev("onopen", PyNone, <<>>, "")>>
    /\ closes = <<>>
    /\ peer_eof = FALSE
    /\ pc = "idle"
    /\ fragments = <<>>
    /\ exc = ""
    /\ result = NoMessage
    /\ last_op = ""
    /\ last_recv = EOF
    /\ nrecv = 0
    /\ nops = 0
    /\ s_pc = "idle"
    /\ s_queue = <<>>
    /\ s_done = <<>>
    /\ s_arg = <<>>
    /\ s_exc = ""
    /\ s_nops = 0

\* no function of frame.py or extension.py has been called
NoCall == [fn |-> ""]
NoRet == [exc |-> "pending"]

\* no websocket shakes hands
NoWebsocket == [sock |-> "none"]

HsIdle ==
    /\ wsock = NoWebsocket
    /\ listener = NoWebsocket
    /\ http_in = [line |-> "", headers |-> <<>>]
    /\ http_out = <<>>
    /\ hs = [op |-> "", exc |-> "pending"]

\* the connection of the docstring's echo server
Init ==
    /\ ConnInit
    /\ role = "server"
    /\ call = NoCall
    /\ ret = NoRet
    /\ HsIdle

\* ------------------------------------------------- main thread: the calls
\* the read at sock.recv(): counts the frame unless the socket is closed
CanRead == nrecv < MaxIn \/ sock = "closed"

Read(in) ==
    IF sock = "closed"
    THEN UNCHANGED <<last_recv, nrecv, peer_eof>>
    ELSE /\ last_recv' = in
         /\ nrecv' = nrecv + 1
         /\ peer_eof' = (in = EOF)

Enter(op) ==
    /\ pc = "idle"
    /\ nops < MaxOps
    /\ nops' = nops + 1
    /\ last_op' = op
    /\ result' = NoMessage

\* the user calls receive_forever()
CallReceiveForever ==
    /\ Enter("receive_forever")
    /\ pc' = "receive_forever"
    /\ fragments' = <<>>
    /\ exc' = ""
    /\ UNCHANGED <<ext_vars, conn_vars, peer_eof, last_recv, nrecv, s_vars>>

\* receive_forever gets a frame (or the end of the stream) from sock.recv()
ReceiveForeverStep(in, cb_raises) ==
    /\ pc = "receive_forever"
    /\ CanRead
    /\ LET r == receive_forever(Cur, fragments, in, cb_raises)
       IN  /\ Commit(r.s)
           /\ fragments' = r.fragments
           /\ pc' = IF r.done THEN "idle" ELSE pc
           /\ exc' = r.s.exc
    /\ Read(in)
    /\ UNCHANGED <<ext_vars, result, last_op, nops, s_vars>>

\* the user calls recv()
CallRecv ==
    /\ Enter("recv")
    /\ pc' = "recv"
    /\ fragments' = <<>>
    /\ exc' = ""
    /\ UNCHANGED <<ext_vars, conn_vars, peer_eof, last_recv, nrecv, s_vars>>

\* recv gets a frame (or the end of the stream) from sock.recv()
RecvStep(in) ==
    /\ pc = "recv"
    /\ CanRead
    /\ LET r == recv(Cur, fragments, in)
       IN  /\ Commit(r.s)
           /\ fragments' = r.fragments
           /\ pc' = IF r.done THEN "idle" ELSE pc
           /\ exc' = r.s.exc
           /\ result' = r.message
    /\ Read(in)
    /\ UNCHANGED <<ext_vars, last_op, nops, s_vars>>

\* the user calls close(code, reason): runs to the sock.recv() call
CallClose(code, reason) ==
    /\ Enter("close")
    /\ LET s == close_send(Cur, code, reason)
       IN  /\ Commit(s)
           /\ pc' = IF s.exc # "" THEN "idle" ELSE "close"
           /\ exc' = s.exc
    /\ UNCHANGED <<ext_vars, fragments, peer_eof, last_recv, nrecv, s_vars>>

\* close gets a frame (or the end of the stream) from sock.recv()
CloseStep(in) ==
    /\ pc = "close"
    /\ CanRead
    /\ LET s == close_recv(Cur, in)
       IN  /\ Commit(s)
           /\ exc' = s.exc
    /\ pc' = "idle"
    /\ Read(in)
    /\ UNCHANGED <<ext_vars, fragments, result, last_op, nops, s_vars>>

\* the user calls send(message, fragment_size, mask): a client's user sets
\* mask, a server's does not
Send(message, fragment_size, masking_key) ==
    /\ Enter("send")
    /\ LET s == send(Cur, message, fragment_size, masking_key)
       IN  /\ Commit(s)
           /\ exc' = s.exc
    /\ UNCHANGED <<ext_vars, pc, fragments, peer_eof, last_recv, nrecv, s_vars>>

\* the user calls send_ping(payload)
SendPing(payload) ==
    /\ Enter("send_ping")
    /\ LET s == send_ping(Cur, payload)
       IN  /\ Commit(s)
           /\ exc' = s.exc
    /\ UNCHANGED <<ext_vars, pc, fragments, peer_eof, last_recv, nrecv, s_vars>>

Next ==
    \/ CallReceiveForever
    \/ \E in \in Inputs, cb_raises \in BOOLEAN : ReceiveForeverStep(in, cb_raises)
    \/ CallRecv
    \/ \E in \in Inputs : RecvStep(in)
    \/ \E a \in CloseArgs : CallClose(a[1], a[2])
    \/ \E in \in Inputs : CloseStep(in)
    \/ \E m \in OutMessages, n \in FragmentSizes, k \in MaskArgs : Send(m, n, k)
    \/ \E p \in Payloads : SendPing(p)

Spec == Init /\ [][Next]_vars

\* ------------------------------------------ a second thread of the user
\* The second thread calls send and send_ping while the main thread runs;
\* it takes one step per statement that reads or writes shared state.

SEnter ==
    /\ s_pc = "idle"
    /\ s_nops < MaxSOps
    /\ s_nops' = s_nops + 1

\* send(message, fragment_size) up to the first send_frame call
SSendStart(message, fragment_size, masking_key) ==
    /\ SEnter
    /\ LET g == message_to_frames(message, fragment_size, masking_key)
       IN  /\ s_exc' = g.exc
           /\ s_queue' = g.frames
           /\ s_pc' = IF g.exc # "" THEN "idle" ELSE "send"
    /\ s_done' = <<>>
    /\ UNCHANGED <<ext_vars, conn_vars, main_vars, s_arg>>

\* send: one send_frame call of the loop
SSendFrame ==
    /\ s_pc = "send"
    /\ LET s == send_frame(Cur, Head(s_queue), "")
       IN  /\ Commit(s)
           /\ s_exc' = s.exc
           /\ s_done' = IF s.exc # "" THEN s_done
                                      ELSE Append(s_done, Head(s_queue))
           /\ s_queue' = IF s.exc # "" THEN <<>> ELSE Tail(s_queue)
           /\ s_pc' = IF s.exc # "" \/ Tail(s_queue) = <<>>
                      THEN "idle" ELSE "send"
    /\ UNCHANGED <<ext_vars, main_vars, s_arg, s_nops>>

\* send_ping(payload): the send_frame call
SPingWrite(payload) ==
    /\ SEnter
    /\ LET s == send_frame(Cur, ControlFrame(OPCODE_PING, payload), "onping")
       IN  /\ Commit(s)
           /\ s_exc' = s.exc
           /\ s_pc' = IF s.exc # "" THEN "idle" ELSE "ping_written"
    /\ s_arg' = payload
    /\ UNCHANGED <<ext_vars, main_vars, s_queue, s_done>>

\* send_ping: self.ping_payload = payload
SPingSetPayload ==
    /\ s_pc = "ping_written"
    /\ ping_payload' = SomePayload(s_arg)
    /\ s_pc' = "ping_payload_set"
    /\ UNCHANGED <<close_frame_sent, close_frame_received, close_params,
                   ping_sent, sock, wire, events, closes, main_vars,
                   s_queue, s_done, s_arg, s_exc, s_nops,
                   ext_vars>>

\* send_ping: self.ping_sent = True
SPingSetSent ==
    /\ s_pc = "ping_payload_set"
    /\ ping_sent' = TRUE
    /\ s_pc' = "idle"
    /\ UNCHANGED <<close_frame_sent, close_frame_received, close_params,
                   ping_payload, sock, wire, events, closes, main_vars,
                   s_queue, s_done, s_arg, s_exc, s_nops,
                   ext_vars>>

NextConc ==
    \/ Next
    \/ \E m \in OutMessages, n \in FragmentSizes, k \in MaskArgs : SSendStart(m, n, k)
    \/ SSendFrame
    \/ \E p \in Payloads : SPingWrite(p)
    \/ SPingSetPayload
    \/ SPingSetSent

SpecConc == Init /\ [][NextConc]_vars

\* ------------------------------------ frame.py: pack and receive_frame
\* a ^ b on bytes
RECURSIVE Xor(_, _)
Xor(a, b) ==
    IF a = 0 THEN b
    ELSE IF b = 0 THEN a
    ELSE 2 * Xor(a \div 2, b \div 2) + ((a + b) % 2)

\* mask(key, original): [exc, data]
mask(key, original) ==
    IF Len(key) # 4
    THEN [exc |-> "ValueError", data |-> <<>>]
    ELSE [exc |-> "",
          data |-> [i \in 1..Len(original) |->
                       Xor(original[i], key[((i - 1) % 4) + 1])]]

\* A payload length is held as the 8 bytes struct.pack('!Q', n) gives, most
\* significant first, so that lengths up to 2^64 - 1 can be told apart.
\* U64(n) is the length n < 2^31.
U64(n) == [i \in 1..8 |-> IF i <= 4 THEN 0 ELSE (n \div 256^(8 - i)) % 256]

\* a < b on lengths
RECURSIVE Less(_, _)
Less(a, b) ==
    IF a = <<>> THEN FALSE
    ELSE IF Head(a) # Head(b) THEN Head(a) < Head(b)
    ELSE Less(Tail(a), Tail(b))

\* 1 << 16 and 1 << 63
Shl16 == <<0, 0, 0, 0, 0, 1, 0, 0>>
Shl63 == <<128, 0, 0, 0, 0, 0, 0, 0>>

\* Frame.pack, the second header byte and the extended length, with 125
\* for 126 as the largest 7-bit length
pack_len_126(mask_bit, payload_len) ==
    IF ~Less(U64(126), payload_len)
    THEN [exc |-> "", bytes |-> <<mask_bit + payload_len[8]>>]
    ELSE IF Less(payload_len, Shl16)
    THEN [exc |-> "", bytes |-> <<mask_bit + 126>> \o SubSeq(payload_len, 7, 8)]
    ELSE IF Less(payload_len, Shl63)
    THEN [exc |-> "", bytes |-> <<mask_bit + 127>> \o payload_len]
    ELSE [exc |-> "Exception", bytes |-> <<>>]

\* Frame.pack, the second header byte and the extended length: [exc, bytes];
\* mask_bit is bool(masking_key) << 7
pack_len(mask_bit, payload_len) ==
    IF ~Less(U64(125), payload_len)
    THEN [exc |-> "", bytes |-> <<mask_bit + payload_len[8]>>]
    ELSE IF Less(payload_len, Shl16)
    THEN [exc |-> "", bytes |-> <<mask_bit + 126>> \o SubSeq(payload_len, 7, 8)]
    ELSE IF Less(payload_len, Shl63)
    THEN [exc |-> "", bytes |-> <<mask_bit + 127>> \o payload_len]
    ELSE [exc |-> "Exception", bytes |-> <<>>]

Bit(b) == IF b THEN 1 ELSE 0

\* bool(self.masking_key) << 7
mask_bit_of(frame) == 128 * Bit(frame.masking_key # <<>>)

\* Frame.pack, the first header byte
pack_flags(frame) ==
    Bit(frame.final) * 128 + Bit(frame.rsv1) * 64 + Bit(frame.rsv2) * 32
        + Bit(frame.rsv3) * 16 + (frame.opcode % 16)

\* Frame.pack: [exc, bytes]
Frame_pack(frame) ==
    LET l == pack_len(mask_bit_of(frame), U64(Len(frame.payload)))
    IN  IF l.exc # "" THEN l
        ELSE [exc |-> "",
              bytes |-> <<pack_flags(frame)>> \o l.bytes \o
                  (IF mask_bit_of(frame) # 0
                   THEN frame.masking_key
                            \o mask(frame.masking_key, frame.payload).data
                   ELSE frame.payload)]

\* ControlFrame.pack
ControlFrame_pack(frame) ==
    IF Len(frame.payload) > MaxControlPayload
    THEN [exc |-> "ValueError", bytes |-> <<>>]
    ELSE Frame_pack(frame)

\* frame.pack() by the frame's class
pack(frame) ==
    IF IsControlFrame(frame) THEN ControlFrame_pack(frame)
                             ELSE Frame_pack(frame)

\* recvn(sock, n) on the bytes the socket still holds, the end of the
\* stream after them: [exc, data, rest]; n is a Python value
recvn(stream, n) ==
    IF n.t # "int"
    THEN [exc |-> "TypeError", data |-> <<>>, rest |-> stream]
    ELSE IF n.v > Len(stream)
    THEN [exc |-> "SocketClosed", data |-> <<>>, rest |-> <<>>]
    ELSE [exc |-> "", data |-> SubSeq(stream, 1, n.v),
          rest |-> SubSeq(stream, n.v + 1, Len(stream))]

\* receive_frame: [exc, frame]; struct.unpack gives payload_len as a 1-tuple,
\* held with the bytes it was unpacked from
receive_frame(stream) ==
    LET h == recvn(stream, PyInt(2))
        b1 == h.data[1]
        b2 == h.data[2]
        opcode == b1 % 16
        masked == b2 >= 128
        len7 == b2 % 128
        x == IF len7 = 126 THEN recvn(h.rest, PyInt(2))
             ELSE IF len7 = 127 THEN recvn(h.rest, PyInt(8))
             ELSE [exc |-> "", data |-> <<>>, rest |-> h.rest]
        payload_len == IF len7 \in {126, 127} THEN PyTuple1(x.data)
                                              ELSE PyInt(len7)
        k == IF masked THEN recvn(x.rest, PyInt(4))
                       ELSE [exc |-> "", data |-> <<>>, rest |-> x.rest]
        p == recvn(k.rest, payload_len)
        u == IF masked THEN mask(k.data, p.data)
                       ELSE [exc |-> "", data |-> p.data]
        failed(e) == [exc |-> e, frame |-> Frame(-1, <<>>, TRUE)]
    IN  IF h.exc # "" THEN failed(h.exc)
        ELSE IF x.exc # "" THEN failed(x.exc)
        ELSE IF k.exc # "" THEN failed(k.exc)
        ELSE IF p.exc # "" THEN failed(p.exc)
        ELSE IF u.exc # "" THEN failed(u.exc)
        ELSE [exc |-> "",
              frame |-> [cls |-> IF (opcode \div 8) % 2 = 1
                                 THEN "ControlFrame" ELSE "Frame",
                         opcode |-> opcode, payload |-> u.data,
                         final |-> (b1 \div 128) % 2 = 1,
                         masking_key |-> k.data,
                         rsv1 |-> (b1 \div 64) % 2 = 1,
                         rsv2 |-> (b1 \div 32) % 2 = 1,
                         rsv3 |-> (b1 \div 16) % 2 = 1]]

\* ------------------------------------------------------- extension.py
\* An extension is a record of the class attributes filter_extensions
\* reads; opcodes is held as the set of the list's elements.
Extension(name, rsv1, rsv2, rsv3, opcodes) ==
    [name |-> name, rsv1 |-> rsv1, rsv2 |-> rsv2, rsv3 |-> rsv3,
     opcodes |-> opcodes]

DeflateFrame == Extension("deflate-frame", TRUE, FALSE, FALSE, {})
Multiplex == Extension("mux", TRUE, TRUE, TRUE, {})

\* a test that looks at the rsv bits only
conflicts_rsv_only(ext, acc) ==
    \/ ext.rsv1 /\ acc.rsv1_reserved
    \/ ext.rsv2 /\ acc.rsv2_reserved
    \/ ext.rsv3 /\ acc.rsv3_reserved

\* filter_extensions: the test that skips an extension; acc holds the
\* function's locals
conflicts(ext, acc) ==
    \/ ext.rsv1 /\ acc.rsv1_reserved
    \/ ext.rsv2 /\ acc.rsv2_reserved
    \/ ext.rsv3 /\ acc.rsv3_reserved
    \/ Cardinality(ext.opcodes \cap acc.opcodes_reserved) # 0

\* filter_extensions: the loop
RECURSIVE filter_loop(_, _)
filter_loop(extensions, acc) ==
    IF extensions = <<>> THEN acc.compat
    ELSE LET ext == Head(extensions)
         IN  IF conflicts(ext, acc)
             THEN filter_loop(Tail(extensions), acc)
             ELSE filter_loop(Tail(extensions),
                      [rsv1_reserved |-> acc.rsv1_reserved \/ ext.rsv1,
                       rsv2_reserved |-> acc.rsv2_reserved \/ ext.rsv2,
                       rsv3_reserved |-> acc.rsv3_reserved \/ ext.rsv3,
                       opcodes_reserved |->
                           acc.opcodes_reserved \cup ext.opcodes,
                       compat |-> Append(acc.compat, ext)])

filter_extensions(extensions) ==
    filter_loop(extensions,
                [rsv1_reserved |-> FALSE, rsv2_reserved |-> FALSE,
                 rsv3_reserved |-> FALSE, opcodes_reserved |-> {},
                 compat |-> <<>>])

\* ------------------------- frame.py, extension.py: the functions, applied
\* A function of the frame layer is applied to arguments drawn from the
\* sets below: `call' holds the function and its arguments, `ret' what it
\* returned.

FnCall(fn, frame, size, payload_len, extensions) ==
    [fn |-> fn, frame |-> frame, size |-> size, payload_len |-> payload_len,
     extensions |-> extensions]

MaxFragmentSize == 3        \* largest fragment_size passed to fragment
MaxFragmentedLen == 4       \* longest payload passed to fragment

\* the first n bytes of 1, 2, 3, ...
Bytes(n) == [i \in 1..n |-> i % 256]

MaxExtensions == 3          \* longest list passed to filter_extensions
MaxHooks == 3               \* most add_hook calls made on a connection

\* the calls made: fragment on data frames of every length up to
\* MaxFragmentedLen; pack on frames with every flag, opcodes of both
\* classes, a masking key or none and payloads around the largest 7-bit
\* length; pack_len on the lengths of payloads too long to write out, around
\* 2^16 and 2^63; filter_extensions on the lists of the extensions of the
\* package and three that reserve opcodes; add_hook, call after call on
\* one connection, the i-th with the hooks i or with None (0) for either;
\* the send and recv hooks of deflate-frame, of extension.py and of
\* deflate_frame.py, on data and control frames with RSV1 set or clear
\* whose payloads are deflated data or not
LibCalls ==
    LET DataOpcodes == {OPCODE_CONTINUATION, OPCODE_TEXT, OPCODE_BINARY}
        PackOpcodes ==
            DataOpcodes \cup {7, OPCODE_CLOSE, OPCODE_PING, OPCODE_PONG, 15}
        PackKeys == MaskingKeys \cup {<<255, 0, 1, 128>>, <<>>}
        PackLens == {0, 1, 5, 125, 126, 127}
        LongLens ==
            {U64(125), U64(126), U64(65535), U64(65536), U64(65537),
             <<0, 0, 0, 1, 0, 0, 0, 0>>,
             <<127, 255, 255, 255, 255, 255, 255, 255>>,
             Shl63,
             <<255, 255, 255, 255, 255, 255, 255, 255>>}
        ExtensionPool ==
            {Extension("", FALSE, FALSE, FALSE, {}), DeflateFrame, Multiplex,
             Extension("a", FALSE, TRUE, FALSE, {3}),
             Extension("b", FALSE, FALSE, FALSE, {3, 4}),
             Extension("c", FALSE, FALSE, TRUE, {11})}
        ExtensionLists ==
            UNION {[1..n -> ExtensionPool] : n \in 0..MaxExtensions}
    IN  {FnCall("fragment",
                [Frame(o, Bytes(n), f) EXCEPT !.masking_key = k], size,
                U64(0), <<>>) :
            o \in DataOpcodes, n \in 0..MaxFragmentedLen, f \in BOOLEAN,
            k \in MaskingKeys \cup {<<>>}, size \in 1..MaxFragmentSize}
        \cup
        {FnCall("pack",
                [cls |-> IF o >= 8 THEN "ControlFrame" ELSE "Frame",
                 opcode |-> o, payload |-> Bytes(n), final |-> f,
                 masking_key |-> k, rsv1 |-> r1, rsv2 |-> r2, rsv3 |-> r3],
                0, U64(0), <<>>) :
            o \in PackOpcodes, n \in PackLens, f \in BOOLEAN, k \in PackKeys,
            r1 \in BOOLEAN, r2 \in BOOLEAN, r3 \in BOOLEAN}
        \cup
        {FnCall("pack_len", [Frame(OPCODE_BINARY, <<>>, TRUE)
                             EXCEPT !.masking_key = k], 0, n, <<>>) :
            k \in PackKeys, n \in LongLens}
        \cup
        {FnCall("filter_extensions", Frame(OPCODE_BINARY, <<>>, TRUE), 0,
                U64(0), l) : l \in ExtensionLists}
        \cup
        {[fn |-> "add_hook",
          hooks |-> [i \in 1..n |->
                        [send |-> IF s[i] THEN i ELSE 0,
                         recv |-> IF r[i] THEN i ELSE 0,
                         prepend |-> p[i]]]] :
            n \in 1..MaxHooks, s \in [1..MaxHooks -> BOOLEAN],
            r \in [1..MaxHooks -> BOOLEAN], p \in [1..MaxHooks -> BOOLEAN]}
        \cup
        {[fn |-> fn, module |-> m,
          frame |-> [cls |-> IF o >= 8 THEN "ControlFrame" ELSE "Frame",
                     opcode |-> o, payload |-> p, final |-> f,
                     masking_key |-> <<>>, rsv1 |-> r1, rsv2 |-> r2,
                     rsv3 |-> FALSE]] :
            fn \in {"Hook.send", "Hook.recv"},
            m \in {"extension", "deflate_frame"},
            o \in PackOpcodes, f \in BOOLEAN, r1 \in BOOLEAN, r2 \in BOOLEAN,
            p \in {<<>>, <<0>>, <<1, 7>>, <<2, 7, 8>>, <<7, 8>>}}

InitLib ==
    /\ ConnInit
    /\ role = "server"
    /\ call \in LibCalls
    /\ ret = NoRet
    /\ HsIdle

\* frame.fragment(fragment_size, mask)
Fragment ==
    /\ call.fn = "fragment"
    /\ ret = NoRet
    /\ ret' = fragment(call.frame, call.size, call.frame.masking_key)
    /\ UNCHANGED <<call, role, conn_vars, main_vars, s_vars, hs_vars>>

\* frame.pack()
Pack ==
    /\ call.fn = "pack"
    /\ ret = NoRet
    /\ ret' = pack(call.frame)
    /\ UNCHANGED <<call, role, conn_vars, main_vars, s_vars, hs_vars>>

\* Frame.pack up to the header's end, for a payload of call.payload_len
\* bytes
PackLen ==
    /\ call.fn = "pack_len"
    /\ ret = NoRet
    /\ ret' = pack_len(mask_bit_of(call.frame), call.payload_len)
    /\ UNCHANGED <<call, role, conn_vars, main_vars, s_vars, hs_vars>>

\* receive_frame(sock) on a socket that holds the bytes pack() gave
ReceiveFrame ==
    /\ call.fn = "pack"
    /\ ret # NoRet
    /\ ret.exc = ""
    /\ call' = [call EXCEPT !.fn = "receive_frame"]
    /\ ret' = receive_frame(ret.bytes)
    /\ UNCHANGED <<role, conn_vars, main_vars, s_vars, hs_vars>>

\* filter_extensions(extensions)
FilterExtensions ==
    /\ call.fn = "filter_extensions"
    /\ ret = NoRet
    /\ ret' = [exc |-> "", extensions |-> filter_extensions(call.extensions)]
    /\ UNCHANGED <<call, role, conn_vars, main_vars, s_vars, hs_vars>>

\* list.insert(index, x)
py_insert(list, index, x) ==
    LET i == IF index < 0 THEN index + Len(list) ELSE index
        at == IF i < 0 THEN 0 ELSE IF i > Len(list) THEN Len(list) ELSE i
    IN  SubSeq(list, 1, at) \o <<x>> \o SubSeq(list, at + 1, Len(list))

\* Connection.add_hook on the hook lists of conn; 0 is None
add_hook(conn, send_hook, recv_hook, prepend) ==
    [conn EXCEPT
        !.hooks_send = IF send_hook # 0
                       THEN py_insert(@, IF prepend THEN 0 ELSE -1, send_hook)
                       ELSE @,
        !.hooks_recv = IF recv_hook # 0
                       THEN py_insert(@, IF prepend THEN -1 ELSE 0, recv_hook)
                       ELSE @]

\* conn.add_hook(send, recv, prepend), the next of the calls; the first is
\* made on the empty lists of Connection.__init__
AddHook ==
    /\ call.fn = "add_hook"
    /\ LET conn == IF ret = NoRet
                   THEN [exc |-> "", hooks_send |-> <<>>, hooks_recv |-> <<>>,
                         n |-> 0]
                   ELSE ret
           h == call.hooks[conn.n + 1]
       IN  /\ conn.n < Len(call.hooks)
           /\ ret' = [add_hook(conn, h.send, h.recv, h.prepend)
                         EXCEPT !.n = @ + 1]
    /\ UNCHANGED <<call, role, conn_vars, main_vars, s_vars, hs_vars>>

\* DeflateFrame.Hook.send, the same in extension.py and deflate_frame.py:
\* [exc, frame]. zlib's deflate is held as the length of the data before
\* the data, what is left of the compressed block when its last four bytes
\* are cut off
DeflateFrame_Hook_send(frame) ==
    LET deflate(data) == <<Len(data)>> \o data
    IN  [exc |-> "",
         frame |-> IF ~frame.rsv1 /\ ~IsControlFrame(frame)
                   THEN [frame EXCEPT !.rsv1 = TRUE,
                                      !.payload = deflate(@)]
                   ELSE frame]

\* DeflateFrame.Hook.recv of extension.py or of deflate_frame.py, which
\* differ in the exception for a control frame: [exc, frame]. inflate
\* raises zlib.error for data that deflate does not give
DeflateFrame_Hook_recv(frame, module) ==
    LET deflated(data) == data # <<>> /\ data[1] = Len(data) - 1
    IN  IF ~frame.rsv1 THEN [exc |-> "", frame |-> frame]
        ELSE IF IsControlFrame(frame)
        THEN [exc |-> IF module = "extension" THEN "SocketClosed"
                                              ELSE "ValueError",
              frame |-> frame]
        ELSE IF ~deflated(frame.payload)
        THEN [exc |-> "zlib.error", frame |-> [frame EXCEPT !.rsv1 = FALSE]]
        ELSE [exc |-> "",
              frame |-> [frame EXCEPT !.rsv1 = FALSE, !.payload = Tail(@)]]

\* hook.send(frame)
HookSend ==
    /\ call.fn = "Hook.send"
    /\ ret = NoRet
    /\ ret' = DeflateFrame_Hook_send(call.frame)
    /\ UNCHANGED <<call, role, conn_vars, main_vars, s_vars, hs_vars>>

\* hook.recv(frame)
HookRecv ==
    /\ call.fn = "Hook.recv"
    /\ ret = NoRet
    /\ ret' = DeflateFrame_Hook_recv(call.frame, call.module)
    /\ UNCHANGED <<call, role, conn_vars, main_vars, s_vars, hs_vars>>

NextLib ==
    \/ HookSend
    \/ HookRecv
    \/ AddHook
    \/ Fragment
    \/ Pack
    \/ PackLen
    \/ ReceiveFrame
    \/ FilterExtensions

SpecLib == InitLib /\ [][NextLib]_vars


\* ------------------------------------------------- Python str methods
\* Header lines and values are strings; a character is a string of length 1.
CharAt(s, i) == SubSeq(s, i, i)

\* the position of character c in s, 0 if it is not there
IndexOf(c, s) ==
    IF \E i \in 1..Len(s) : CharAt(s, i) = c
    THEN CHOOSE i \in 1..Len(s) :
             CharAt(s, i) = c /\ \A j \in 1..(i - 1) : CharAt(s, j) # c
    ELSE 0

\* s.lower()
RECURSIVE lower(_)
lower(s) ==
    IF s = "" THEN ""
    ELSE LET c == CharAt(s, 1)
             i == IndexOf(c, "ABCDEFGHIJKLMNOPQRSTUVWXYZ")
         IN  (IF i = 0 THEN c ELSE CharAt("abcdefghijklmnopqrstuvwxyz", i))
                 \o lower(Tail(s))

\* sub in s
contains(sub, s) ==
    \E i \in 1..(Len(s) - Len(sub) + 1) : SubSeq(s, i, i + Len(sub) - 1) = sub

\* s.strip()
strip(s) ==
    LET kept == {i \in 1..Len(s) : CharAt(s, i) \notin {" ", "\t", "\n", "\r"}}
    IN  IF kept = {} THEN ""
        ELSE SubSeq(s, CHOOSE i \in kept : \A j \in kept : i <= j,
                       CHOOSE i \in kept : \A j \in kept : j <= i)

\* s.split(delim) for a delimiter of one character
RECURSIVE split(_, _)
split(s, delim) ==
    LET i == IndexOf(delim, s)
    IN  IF i = 0 THEN <<s>>
        ELSE <<SubSeq(s, 1, i - 1)>> \o split(SubSeq(s, i + 1, Len(s)), delim)

\* sep.join(list)
RECURSIVE join(_, _)
join(sep, list) ==
    IF list = <<>> THEN ""
    ELSE IF Len(list) = 1 THEN list[1]
    ELSE list[1] \o sep \o join(sep, Tail(list))

\* split_stripped(value) of websocket.py and handshake.py
split_stripped(value) ==
    IF value = "" THEN <<>>
    ELSE LET parts == split(value, ",")
         IN  [i \in DOMAIN parts |-> strip(parts[i])]

\* x in list
InList(x, list) == \E i \in DOMAIN list : list[i] = x

\* ------------------------------------- websocket.py: the HTTP handshakes
\* An HTTP message is a record [line, headers]: its first line with the
\* line end, and the (name, value) pairs that re.findall takes from the
\* lines after it, in order.
WS_GUID == "258EAFA5-E914-47DA-95CA-C5AB0DC85B11"
WS_VERSION == "13"

\* b64encode(sha1(key + WS_GUID).digest()): the digest is held as its input
accept_key(key) == "sha1(" \o key \o WS_GUID \o ")"

\* websocket.__init__: the fields of a websocket; sock is "open" or
\* "closed", protocol is "" while no protocol is set. location and auth
\* are the fields that the caller of a Handshake sets, auth <<>> for None
websocket(protocols, extensions, origin, trusted_origins) ==
    [protocols |-> protocols, extensions |-> extensions, origin |-> origin,
     trusted_origins |-> trusted_origins, sock |-> "open",
     secure |-> FALSE, handshake_started |-> FALSE, protocol |-> "",
     location |-> "", auth |-> <<>>]

\* header names and header(name): the values of the headers called name,
\* joined with ', ' ('' when there is none)
header_names(headers) == [i \in DOMAIN headers |-> headers[i][1]]

header(headers, name) ==
    LET named == SelectSeq(headers, LAMBDA h : h[1] = name)
    IN  join(", ", [i \in DOMAIN named |-> named[i][2]])

\* re.search(r'^GET (.*) HTTP/1.1\r\n', raw) on the first line:
\* [matched, location]; a dot matches every character but "\n" and the
\* group takes the longest location
request_match(line) ==
    LET ends == {k \in 4..(Len(line) - 11) :
                    /\ SubSeq(line, 1, 4) = "GET "
                    /\ \A i \in 5..k : CharAt(line, i) # "\n"
                    /\ SubSeq(line, k + 1, k + 7) = " HTTP/1"
                    /\ CharAt(line, k + 8) # "\n"
                    /\ SubSeq(line, k + 9, k + 11) = "1\r\n"}
    IN  IF ends = {}
        THEN [matched |-> FALSE, location |-> ""]
        ELSE [matched |-> TRUE,
              location |-> SubSeq(line, 5,
                                  CHOOSE k \in ends : \A j \in ends : j <= k)]

RequiredRequestHeaders ==
    <<"Host", "Upgrade", "Connection", "Sec-WebSocket-Key",
      "Sec-WebSocket-Version">>

\* the first p of list that is in supported, none_value if there is none
RECURSIVE first_supported(_, _, _)
first_supported(list, supported, none_value) ==
    IF list = <<>> THEN none_value
    ELSE IF InList(Head(list), supported) THEN Head(list)
    ELSE first_supported(Tail(list), supported, none_value)

\* the result of a handshake: the websocket after it, what it wrote to its
\* socket, the exception it raised
HsResult(ws, out, raised) == [ws |-> ws, out |-> out, exc |-> raised]

\* fail(msg)
hs_fail(ws) ==
    HsResult([ws EXCEPT !.sock = "closed"], <<>>, "HandshakeError")

\* the checks that the two server handshakes share line by line: the
\* required headers, the version, the keywords, the origin policy
request_refused(ws, headers) ==
    LET names == header_names(headers)
    IN  \/ \E i \in DOMAIN RequiredRequestHeaders :
               ~InList(RequiredRequestHeaders[i], names)
        \/ header(headers, "Sec-WebSocket-Version") # WS_VERSION
        \/ ~contains("websocket", lower(header(headers, "Upgrade")))
        \/ ~contains("upgrade", lower(header(headers, "Connection")))
        \/ IF ~InList("Origin", names)
           THEN InList("User-Agent", names) \/ ws.trusted_origins # <<>>
           ELSE /\ ws.trusted_origins # <<>>
                /\ ~InList(header(headers, "Origin"), ws.trusted_origins)

\* websocket.server_handshake
server_handshake(ws, request) ==
    LET m == request_match(request.line)
        hdr(name) == header(request.headers, name)
        client_protocols == split_stripped(hdr("Sec-WebSocket-Extensions"))
        protocol == first_supported(client_protocols, ws.protocols, "null")
        extensions ==
            SelectSeq(split_stripped(hdr("Sec-WebSocket-Extensions")),
                      LAMBDA e : InList(e, ws.extensions))
        shake ==
            [line |-> "HTTP/1.1 101 Web Socket Protocol Handshake\r\n",
             headers |->
                 <<<<"Upgrade", "websocket">>,
                   <<"Connection", "Upgrade">>,
                   <<"WebSocket-Origin", hdr("Origin")>>,
                   <<"WebSocket-Location",
                     "ws://" \o hdr("Host") \o m.location>>,
                   <<"Sec-WebSocket-Accept",
                     accept_key(strip(hdr("Sec-WebSocket-Key")))>>,
                   <<"Sec-WebSocket-Protocol", protocol>>,
                   <<"Sec-WebSocket-Extensions", join(", ", extensions)>>>>]
    IN  IF ~m.matched THEN hs_fail(ws)
        ELSE IF request_refused(ws, request.headers) THEN hs_fail(ws)
        ELSE HsResult([ws EXCEPT !.handshake_started = TRUE], <<shake>>, "")

\* websocket.accept: the handshake runs on websocket(sock)
accept(lsock, request) ==
    server_handshake(websocket(<<>>, <<>>, "", <<>>), request)

\* the address connect() was given, as the Host header shows it
PeerName == "example.com:80"

\* re.search(r'^HTTP/1\.1 (\d{3})', raw): [matched, status]
response_match(line) ==
    LET digit(i) == IndexOf(CharAt(line, i), "0123456789") - 1
    IN  IF /\ Len(line) >= 12
           /\ SubSeq(line, 1, 9) = "HTTP/1.1 "
           /\ \A i \in 10..12 : digit(i) >= 0
        THEN [matched |-> TRUE,
              status |-> 100 * digit(10) + 10 * digit(11) + digit(12)]
        ELSE [matched |-> FALSE, status |-> 0]

\* send_request of client_handshake: the request it writes
send_request(ws, location, auth, key) ==
    [line |-> "GET " \o location \o " HTTP/1.1\r\n",
     headers |->
         <<<<"Host", PeerName>>,
           <<"Upgrade", "websocket">>,
           <<"Connection", "keep-alive, Upgrade">>,
           <<"Sec-WebSocket-Key", key>>,
           <<"Sec-WebSocket-Version", WS_VERSION>>>>
         \o (IF ws.origin # "" THEN <<<<"Origin", ws.origin>>>> ELSE <<>>)
         \o <<<<"Pragma", "no-cache">>, <<"Cache-Control", "no-cache">>>>
         \o (IF ws.protocols # <<>>
             THEN <<<<"Sec-WebSocket-Protocol", join(", ", ws.protocols)>>>>
             ELSE <<>>)
         \o (IF ws.extensions # <<>>
             THEN <<<<"Sec-WebSocket-Extensions",
                      join(", ", ws.extensions)>>>>
             ELSE <<>>)
         \o (IF auth # "" THEN <<<<"Authorization", auth>>>> ELSE <<>>)]

RequiredResponseHeaders == <<"Upgrade", "Connection", "Sec-WebSocket-Accept">>

\* the checks that the two client handshakes share line by line: the
\* required headers, the keywords, the accept key
response_refused(headers, key) ==
    LET names == header_names(headers)
    IN  \/ \E i \in DOMAIN RequiredResponseHeaders :
               ~InList(RequiredResponseHeaders[i], names)
        \/ ~contains("websocket", lower(header(headers, "Upgrade")))
        \/ ~contains("upgrade", lower(header(headers, "Connection")))
        \/ strip(header(headers, "Sec-WebSocket-Accept")) # accept_key(key)

\* the redirect that the two client handshakes share line by line: the
\* netloc, port and path of urlparse(location), the socket reconnected when
\* (netloc, port) is not getpeername(). Without a port the assignment to
\* url.port raises AttributeError (in handshake.py the read of self.secure
\* does); connect() on the socket that was closed raises socket.error
redirect(ws, location) ==
    LET parts == split(strip(location), "/")
        has_netloc == Len(parts) >= 3 /\ parts[2] = ""
        netloc == IF has_netloc THEN parts[3] ELSE ""
        colon == IndexOf(":", netloc)
        port == IF colon = 0 THEN ""
                ELSE SubSeq(netloc, colon + 1, Len(netloc))
        path == IF has_netloc /\ Len(parts) > 3
                THEN "/" \o join("/", SubSeq(parts, 4, Len(parts)))
                ELSE ""
    IN  IF port = "" THEN [ws |-> ws, exc |-> "AttributeError", path |-> path]
        ELSE IF <<netloc, port>> # split(PeerName, ":")
        THEN [ws |-> [ws EXCEPT !.sock = "closed"], exc |-> "socket.error",
              path |-> path]
        ELSE [ws |-> ws, exc |-> "", path |-> path]

RedirectStatuses == {301, 302, 303, 307, 308}

\* websocket.client_handshake up to the end of one receive_response: sent
\* are the requests written before this response was read, none when the
\* call begins; "pending" is the call reading the next response
client_handshake(ws, location, auth, key, response, sent) ==
    LET ws0 == [ws EXCEPT !.handshake_started = TRUE]
        out == IF sent = <<>> THEN <<send_request(ws0, location, auth, key)>>
               ELSE sent
        failed == [hs_fail(ws0) EXCEPT !.out = out]
        m == response_match(response.line)
        hdr(name) == header(response.headers, name)
        url == redirect(ws0, hdr("Location"))
        server_ext == split_stripped(hdr("Sec-WebSocket-Extensions"))
        protocol == hdr("Sec-WebSocket-Protocol")
    IN  IF sent = <<>> /\ Len(location) = 0 THEN hs_fail(ws0)
        ELSE IF ~m.matched THEN failed
        ELSE IF m.status = 401 THEN HsResult(ws0, out, "HandshakeError")
        ELSE IF m.status \in RedirectStatuses
        THEN IF url.exc # "" THEN HsResult(url.ws, out, url.exc)
             ELSE IF Len(url.path) = 0 THEN failed
             ELSE HsResult(ws0,
                           out \o <<send_request(ws0, url.path, auth, key)>>,
                           "pending")
        ELSE IF m.status # 101 THEN failed
        ELSE IF response_refused(response.headers, key) THEN failed
        ELSE IF \E i \in DOMAIN server_ext :
                    ~InList(server_ext[i], ws0.extensions)
        THEN failed
        ELSE IF \E i \in DOMAIN ws0.extensions :
                    ~InList(ws0.extensions[i], server_ext)
        THEN failed
        ELSE IF protocol = "" THEN HsResult(ws0, out, "")
        ELSE IF protocol # "null" /\ ~InList(protocol, ws0.protocols)
        THEN failed
        ELSE HsResult([ws0 EXCEPT !.protocol = protocol], out, "")

\* websocket.enable_ssl: [ws, exc]. sock becomes "ssl", the SSLSocket that
\* wraps the open socket; ssl.wrap_socket raises socket.error for a socket
\* that was closed
enable_ssl(ws) ==
    LET ws1 == [ws EXCEPT !.secure = TRUE]
    IN  IF ws.handshake_started THEN [ws |-> ws, exc |-> "SSLError"]
        ELSE IF ws1.sock = "closed" THEN [ws |-> ws1, exc |-> "socket.error"]
        ELSE [ws |-> [ws1 EXCEPT !.sock = "ssl"], exc |-> ""]

\* ---------------------------------------- handshake.py: the handshakes
\* The websocket a Handshake is made for holds Extension objects in
\* extensions; its location is set by the caller.
ext_names(extensions) == [i \in DOMAIN extensions |-> extensions[i].name]

\* ServerHandshake.perform: receive_request, then send_headers on the list
\* of response_headers. parse_param_hdr is a generator of one item, so
\* the assignment of its result to (name, params) raises ValueError.
ServerHandshake_perform(ws, request) ==
    LET m == request_match(request.line)
        names == header_names(request.headers)
        hdr(name) == header(request.headers, name)
        ws1 == [ws EXCEPT !.location = m.location]
        origin == IF InList("Origin", names) /\ ws.trusted_origins # <<>>
                  THEN hdr("Origin") ELSE "null"
        client_proto == IF InList("Sec-WebSocket-Protocol", names)
                        THEN split_stripped(hdr("Sec-WebSocket-Protocol"))
                        ELSE <<>>
        ws2 == [ws1 EXCEPT
                   !.protocol = first_supported(client_proto, ws.protocols, "")]
        client_ext == IF InList("Sec-WebSocket-Extensions", names)
                      THEN split_stripped(hdr("Sec-WebSocket-Extensions"))
                      ELSE <<>>
        ws3 == [ws2 EXCEPT !.extensions = filter_extensions(<<>>)]
        response ==
            [line |-> "HTTP/1.1 101 Web Socket Protocol Handshake\r\n",
             headers |->
                 <<<<"Upgrade", "websocket">>,
                   <<"Connection", "Upgrade">>,
                   <<"WebSocket-Origin", origin>>,
                   <<"WebSocket-Location",
                     (IF ws.secure THEN "wss" ELSE "ws") \o "://"
                         \o hdr("Host") \o ws1.location>>,
                   <<"Sec-WebSocket-Accept",
                     accept_key(strip(hdr("Sec-WebSocket-Key")))>>>>
                 \o (IF ws3.protocol # ""
                     THEN <<<<"Sec-WebSocket-Protocol", ws3.protocol>>>>
                     ELSE <<>>)
                 \o (IF ws3.extensions # <<>>
                     THEN <<<<"Sec-WebSocket-Extensions",
                              join(", ", ext_names(ws3.extensions))>>>>
                     ELSE <<>>)]
    IN  IF ~m.matched THEN hs_fail(ws)
        ELSE IF request_refused(ws1, request.headers) THEN hs_fail(ws1)
        ELSE IF client_ext # <<>> THEN HsResult(ws2, <<>>, "ValueError")
        ELSE HsResult(ws3, <<response>>, "")

\* ClientHandshake.request_headers
request_headers(ws, key) ==
    [line |-> "GET " \o ws.location \o " HTTP/1.1\r\n",
     headers |->
         <<<<"Host", PeerName>>,
           <<"Upgrade", "websocket">>,
           <<"Connection", "keep-alive, Upgrade">>,
           <<"Sec-WebSocket-Key", key>>,
           <<"Sec-WebSocket-Version", WS_VERSION>>>>
         \o (IF ws.origin # "" THEN <<<<"Origin", ws.origin>>>> ELSE <<>>)
         \o <<<<"Pragma", "no-cache">>, <<"Cache-Control", "no-cache">>>>
         \o (IF ws.protocols # <<>>
             THEN <<<<"Sec-WebSocket-Protocol", join(", ", ws.protocols)>>>>
             ELSE <<>>)
         \o (IF ws.extensions # <<>>
             THEN <<<<"Sec-WebSocket-Extensions",
                      join(", ", ext_names(ws.extensions))>>>>
             ELSE <<>>)]

\* ClientHandshake.handle_handshake, after the request out was written
handle_handshake(ws, headers, key, out) ==
    LET names == header_names(headers)
        failed == [hs_fail(ws) EXCEPT !.out = out]
        server_ext == split_stripped(header(headers,
                                            "Sec-WebSocket-Extensions"))
        ws1 == IF InList("Sec-WebSocket-Extensions", names)
               THEN [ws EXCEPT !.extensions = <<>>] ELSE ws
        protocol == header(headers, "Sec-WebSocket-Protocol")
    IN  IF response_refused(headers, key) THEN failed
        ELSE IF server_ext # <<>> THEN HsResult(ws1, out, "ValueError")
        ELSE IF ~InList("Sec-WebSocket-Protocol", names)
        THEN HsResult(ws1, out, "")
        ELSE IF protocol # "null" /\ ~InList(protocol, ws1.protocols)
        THEN [hs_fail(ws1) EXCEPT !.out = out]
        ELSE HsResult([ws1 EXCEPT !.protocol = protocol], out, "")

MAX_REDIRECTS == 10

\* ClientHandshake.handle_auth with http_auth_basic_headers and
\* http_auth_digest_headers, after the requests out were written: the
\* authenticated request is written and the next response awaited.
\* b64encode and build_authorization_request are held as their inputs
handle_auth(ws, headers, key, out) ==
    LET hdr == header(headers, "WWW-Authenticate")
        mode == split(strip(hdr), " ")[1]
        is_at(name, i) ==
            /\ i + Len(name) + 1 <= Len(hdr)
            /\ SubSeq(hdr, i, i + Len(name) + 1) = name \o "=\""
        at(name) ==
            IF \E i \in 1..Len(hdr) : is_at(name, i)
            THEN CHOOSE i \in 1..Len(hdr) :
                     is_at(name, i) /\ \A j \in 1..(i - 1) : ~is_at(name, j)
            ELSE 0
        authres(name) ==
            LET rest == SubSeq(hdr, at(name) + Len(name) + 2, Len(hdr))
                quote == IndexOf("\"", rest)
            IN  IF quote = 0 THEN rest ELSE SubSeq(rest, 1, quote - 1)
        basic == "Basic b64(" \o ws.auth[1] \o ":" \o ws.auth[2] \o ")"
        digest == "Digest(" \o ws.auth[1] \o ",GET," \o ws.location \o ",0,"
                      \o authres("realm") \o "," \o authres("nonce") \o ","
                      \o authres("opaque") \o "," \o ws.auth[2] \o ")"
        request(auth_hdr) ==
            [request_headers(ws, key) EXCEPT
                !.headers = @ \o <<<<"Authorization", auth_hdr>>>>]
    IN  IF ~InList("WWW-Authenticate", header_names(headers))
        THEN HsResult(ws, out, "KeyError")
        ELSE IF ws.auth = <<>> THEN [hs_fail(ws) EXCEPT !.out = out]
        ELSE IF mode = "Basic"
        THEN HsResult(ws, out \o <<request(basic)>>, "pending")
        ELSE IF mode = "Digest"
        THEN IF \E name \in {"realm", "nonce", "opaque"} : at(name) = 0
             THEN HsResult(ws, out, "KeyError")
             ELSE HsResult(ws, out \o <<request(digest)>>, "pending")
        ELSE [hs_fail(ws) EXCEPT !.out = out]

\* ClientHandshake.handle_redirect as the redirect of count redirects + 1,
\* with the perform() that it ends in up to receive_response
handle_redirect(ws, headers, key, out, redirects) ==
    LET url == redirect(ws, header(headers, "Location"))
        ws1 == [ws EXCEPT !.location = url.path]
    IN  IF redirects + 1 > MAX_REDIRECTS
        THEN [hs_fail(ws) EXCEPT !.out = out]
        ELSE IF ~InList("Location", header_names(headers))
        THEN HsResult(ws, out, "KeyError")
        ELSE IF url.exc # "" THEN HsResult(url.ws, out, url.exc)
        ELSE IF Len(ws1.location) = 0 THEN [hs_fail(ws1) EXCEPT !.out = out]
        ELSE HsResult(ws1, out \o <<request_headers(ws1, key)>>, "pending")

\* ClientHandshake.perform up to the end of one handle_response: sent are
\* the requests written before this response was read, none when perform
\* begins; "pending" is handle_response reading the next response
ClientHandshake_perform(ws, key, response, sent, redirects) ==
    LET out == IF sent = <<>> THEN <<request_headers(ws, key)>> ELSE sent
        m == response_match(response.line)
    IN  IF sent = <<>> /\ Len(ws.location) = 0 THEN hs_fail(ws)
        ELSE IF ~m.matched THEN [hs_fail(ws) EXCEPT !.out = out]
        ELSE IF m.status = 101
        THEN handle_handshake(ws, response.headers, key, out)
        ELSE IF m.status = 401
        THEN handle_auth(ws, response.headers, key, out)
        ELSE IF m.status \in RedirectStatuses
        THEN handle_redirect(ws, response.headers, key, out, redirects)
        ELSE [hs_fail(ws) EXCEPT !.out = out]

\* ------------------------------------------- the handshakes, applied
\* the most requests that a client handshake writes before it is cut off
MaxRequests == 3

ClientKey == "dGhlIHNhbXBsZSBub25jZQ=="

\* an optional header: none when value is "-"
Optional(name, value) == IF value = "-" THEN <<>> ELSE <<<<name, value>>>>

\* the requests a client sends: the line or the required headers vary, or
\* Origin and User-Agent, or the protocols and extensions
Requests ==
    LET RequestHeaders(upgrade, connection, version) ==
            <<<<"Host", PeerName>>, <<"Upgrade", upgrade>>,
              <<"Connection", connection>>,
              <<"Sec-WebSocket-Key", ClientKey>>,
              <<"Sec-WebSocket-Version", version>>>>
        Good == RequestHeaders("websocket", "Upgrade", WS_VERSION)
    IN  {[line |-> l, headers |-> h] :
            l \in {"GET / HTTP/1.1\r\n", "GET /chat HTTP/1.1\r\n",
                   "GET / HTTP/1.0\r\n", "GET / HTTP/1x1\r\n",
                   "GET / HTTP/1.1\n", "POST / HTTP/1.1\r\n",
                   "get / HTTP/1.1\r\n"},
            h \in {RequestHeaders(u, c, v) :
                      u \in {"websocket", "WebSocket", "h2c"},
                      c \in {"Upgrade", "keep-alive, Upgrade", "close"},
                      v \in {WS_VERSION, "8"}}
                  \cup {SelectSeq(Good,
                                  LAMBDA x : x[1] # RequiredRequestHeaders[i]) :
                           i \in DOMAIN RequiredRequestHeaders}}
        \cup
        {[line |-> "GET / HTTP/1.1\r\n",
          headers |-> Good \o Optional("Origin", o)
                          \o Optional("User-Agent", a)] :
            o \in {"-", "http://a.example", "http://b.example"},
            a \in {"-", "Mozilla/5.0"}}
        \cup
        {[line |-> "GET /chat HTTP/1.1\r\n",
          headers |-> Good \o Optional("Sec-WebSocket-Protocol", p)
                          \o Optional("Sec-WebSocket-Extensions", e)] :
            p \in {"-", "chat", "superchat, chat", "soap", "soap,superchat"},
            e \in {"-", "deflate-frame", "chat"}}

\* the responses a server sends: the line or the required headers vary, or
\* the protocol and the extensions of a 101 response, or the challenge of
\* a 401 response, or the status and the Location of a redirect
Responses ==
    LET ResponseHeaders(acc) ==
            <<<<"Upgrade", "websocket">>, <<"Connection", "Upgrade">>,
              <<"Sec-WebSocket-Accept", acc>>>>
        Good == ResponseHeaders(accept_key(ClientKey))
    IN  {[line |-> l, headers |-> h] :
            l \in {"HTTP/1.1 101 Switching Protocols\r\n",
                   "HTTP/1.1 200 OK\r\n",
                   "HTTP/1.0 101 Switching Protocols\r\n"},
            h \in {Good, ResponseHeaders("invalid")}
                  \cup {SelectSeq(Good,
                                  LAMBDA x : x[1] # RequiredResponseHeaders[i]) :
                           i \in DOMAIN RequiredResponseHeaders}}
        \cup
        {[line |-> "HTTP/1.1 101 Switching Protocols\r\n",
          headers |-> Good \o Optional("Sec-WebSocket-Extensions", e)
                          \o Optional("Sec-WebSocket-Protocol", p)] :
            e \in {"-", "", "deflate-frame", "mux", "deflate-frame, mux",
                   "mux, deflate-frame", "x-webkit-deflate-frame"},
            p \in {"-", "chat", "null", "soap"}}
        \cup
        {[line |-> "HTTP/1.1 401 Unauthorized\r\n",
          headers |-> Optional("WWW-Authenticate", a)] :
            a \in {"-", "Basic realm=\"wspy\"", "Negotiate",
                   "Digest realm=\"wspy\", nonce=\"abc\", opaque=\"xyz\"",
                   "Digest realm=\"wspy\", nonce=\"abc\""}}
        \cup
        {[line |-> "HTTP/1.1 " \o l, headers |-> Optional("Location", u)] :
            l \in {"301 Moved Permanently\r\n", "302 Found\r\n",
                   "303 See Other\r\n", "307 Temporary Redirect\r\n",
                   "308 Permanent Redirect\r\n"},
            u \in {"-", "ws://example.com/chat2",
                   "ws://example.com:80/chat2",
                   "ws://other.example:8080/chat2"}}

\* a websocket is made, the peer's HTTP message has arrived and the
\* handshake op is called, with the arguments of a client's call
InitHandshake ==
    LET HsCall(op, location, auth) ==
            [op |-> op, exc |-> "pending", location |-> location,
             auth |-> auth, key |-> ClientKey, redirects |-> 0,
             ssl |-> "pending"]
        ServerSockets(extension_lists) ==
            {websocket(p, e, "", o) :
                p \in {<<>>, <<"chat">>, <<"chat", "superchat">>},
                e \in extension_lists,
                o \in {<<>>, <<"http://a.example">>}}
        ClientSockets(extension_lists) ==
            {websocket(p, e, o, <<>>) :
                p \in {<<>>, <<"chat">>},
                e \in extension_lists,
                o \in {"", "http://a.example"}}
    IN  /\ ConnInit
        /\ call = NoCall
        /\ ret = NoRet
        /\ http_out = <<>>
        /\ \/ /\ hs = HsCall("accept", "", "")
              /\ role = "server"
              /\ listener \in ServerSockets({<<>>, <<"deflate-frame">>})
              /\ wsock = NoWebsocket
              /\ http_in \in Requests
           \/ /\ hs = HsCall("server_handshake", "", "")
              /\ role = "server"
              /\ listener = NoWebsocket
              /\ wsock \in ServerSockets({<<>>, <<"deflate-frame">>})
              /\ http_in \in Requests
           \/ /\ hs = HsCall("ServerHandshake", "", "")
              /\ role = "server"
              /\ listener = NoWebsocket
              /\ wsock \in ServerSockets({<<>>, <<DeflateFrame>>})
              /\ http_in \in Requests
           \/ /\ hs \in {HsCall("client_handshake", l, a) :
                          l \in {"/chat", ""}, a \in {"", "Basic dTpw"}}
              /\ role = "client"
              /\ listener = NoWebsocket
              /\ wsock \in ClientSockets({<<>>, <<"deflate-frame">>,
                                          <<"deflate-frame", "mux">>})
              /\ http_in \in Responses
           \/ /\ hs \in {HsCall("ClientHandshake", l, a) :
                          l \in {"/chat", ""}, a \in {<<>>, <<"u", "p">>}}
              /\ role = "client"
              /\ listener = NoWebsocket
              /\ wsock \in {[w EXCEPT !.location = hs.location,
                                         !.auth = hs.auth] :
                               w \in ClientSockets(
                                         {<<>>, <<DeflateFrame>>,
                                          <<DeflateFrame, Multiplex>>})}
              /\ http_in \in Responses

\* what a handshake leaves when it returns or raises, or when it reads
\* the next response of the server
Shaken(r, redirects) ==
    /\ wsock' = r.ws
    /\ http_out' = r.out
    /\ hs' = [hs EXCEPT !.exc = r.exc, !.redirects = redirects]
    /\ IF r.exc = "pending" THEN http_in' \in Responses
       ELSE UNCHANGED http_in
    /\ UNCHANGED <<listener, role, lib_vars, conn_vars, main_vars, s_vars>>

\* listener.accept()
Accept ==
    /\ hs.op = "accept"
    /\ hs.exc = "pending"
    /\ Shaken(accept(listener, http_in), hs.redirects)

\* wsock.server_handshake()
ServerHandshake ==
    /\ hs.op = "server_handshake"
    /\ hs.exc = "pending"
    /\ Shaken(server_handshake(wsock, http_in), hs.redirects)

\* ServerHandshake(wsock).perform()
ServerHandshakePerform ==
    /\ hs.op = "ServerHandshake"
    /\ hs.exc = "pending"
    /\ Shaken(ServerHandshake_perform(wsock, http_in), hs.redirects)

\* wsock.client_handshake(address, location, auth)
ClientHandshake ==
    /\ hs.op = "client_handshake"
    /\ hs.exc = "pending"
    /\ Len(http_out) < MaxRequests
    /\ Shaken(client_handshake(wsock, hs.location, hs.auth, hs.key, http_in,
                               http_out),
              hs.redirects)

\* ClientHandshake(wsock).perform()
ClientHandshakePerform ==
    /\ hs.op = "ClientHandshake"
    /\ hs.exc = "pending"
    /\ Len(http_out) < MaxRequests
    /\ LET m == response_match(http_in.line)
           handled == http_out # <<>> \/ Len(wsock.location) # 0
       IN  Shaken(ClientHandshake_perform(wsock, hs.key, http_in, http_out,
                                          hs.redirects),
                  IF handled /\ m.matched /\ m.status \in RedirectStatuses
                  THEN hs.redirects + 1 ELSE hs.redirects)

\* wsock.enable_ssl(), once: before the handshake is called or after it
\* has returned or raised; the websocket that accept() makes is the
\* caller's when accept() has returned
EnableSsl ==
    /\ hs.ssl = "pending"
    /\ IF hs.op = "accept" THEN hs.exc = ""
       ELSE hs.exc # "pending" \/ http_out = <<>>
    /\ LET r == enable_ssl(wsock)
       IN  /\ wsock' = r.ws
           /\ hs' = [hs EXCEPT !.ssl = r.exc]
    /\ UNCHANGED <<listener, http_in, http_out, role, lib_vars, conn_vars,
                   main_vars, s_vars>>

NextHandshake ==
    \/ EnableSsl
    \/ Accept
    \/ ServerHandshake
    \/ ServerHandshakePerform
    \/ ClientHandshake
    \/ ClientHandshakePerform

SpecHandshake == InitHandshake /\ [][NextHandshake]_vars

\* ------------------------------------ the handshakes read the headers
\* Handshake.receive_headers, and the same loop in server_handshake and in
\* client_handshake: what sock.recv(512) gives is added to raw_headers
\* until its last four characters are the blank line. Of raw_headers the
\* model keeps the length and the last four characters; a chunk is the
\* length and the last (up to four) characters of what recv gave.
MaxHeaderReads == 17        \* most sock.recv(512) calls of one loop

\* one turn of the loop on the chunk that recv gave: [nbytes, tail, exc],
\* exc "pending" while the loop goes on and "" when it has ended
receive_headers(raw, chunk) ==
    LET text == raw.tail \o chunk.text
        tail == SubSeq(text, IF Len(text) > 4 THEN Len(text) - 3 ELSE 1,
                       Len(text))
    IN  [nbytes |-> raw.nbytes + chunk.len,
         tail |-> tail,
         exc |-> IF tail \in {"\r\n\r\n", "\n\n"} THEN "" ELSE "pending"]

\* a websocket begins to read the headers of its peer
InitHeaders ==
    /\ ConnInit
    /\ role \in {"client", "server"}
    /\ call = NoCall
    /\ ret = NoRet
    /\ wsock = websocket(<<>>, <<>>, "", <<>>)
    /\ listener = NoWebsocket
    /\ http_in = [line |-> "", headers |-> <<>>]
    /\ http_out = <<>>
    /\ hs = [op |-> "receive_headers", exc |-> "pending", nbytes |-> 0,
             tail |-> "", reads |-> 0, eof |-> FALSE]

\* sock.recv(512) returns chunk, '' when the peer has closed the stream
ReceiveHeaders(chunk) ==
    /\ hs.op = "receive_headers"
    /\ hs.exc = "pending"
    /\ hs.reads < MaxHeaderReads
    /\ hs.eof => chunk.len = 0
    /\ LET r == receive_headers(hs, chunk)
       IN  hs' = [hs EXCEPT !.nbytes = r.nbytes, !.tail = r.tail,
                            !.exc = r.exc, !.reads = @ + 1,
                            !.eof = (chunk.len = 0)]
    /\ UNCHANGED <<wsock, listener, http_in, http_out, role, lib_vars,
                   conn_vars, main_vars, s_vars>>

NextHeaders ==
    LET Chunks ==
            {[len |-> Len(x), text |-> x] :
                x \in {"", "\n", "\r\n", "\n\n", "\r\n\r\n", "a: b"}}
            \cup {[len |-> 512, text |-> x] : x \in {"a: b", "\r\n\r\n"}}
    IN  \E chunk \in Chunks : ReceiveHeaders(chunk)

SpecHeaders == InitHeaders /\ [][NextHeaders]_vars

\* ------------------------- control frames with the longest payloads
\* The connection with, besides the calls and frames of Next, pings of 125
\* and of 126 bytes and received control frames of 125 bytes, the longest
\* that a 7-bit length admits.
LongInFrames ==
    IF peer_eof THEN {}
    ELSE {ControlFrame(o, Bytes(MaxControlPayload)) :
              o \in {OPCODE_PING, OPCODE_CLOSE}}

NextLong ==
    \/ Next
    \/ \E p \in {Bytes(MaxControlPayload), Bytes(MaxControlPayload + 1)} :
           SendPing(p)
    \/ \E in \in LongInFrames : RecvStep(in)
    \/ \E in \in LongInFrames : CloseStep(in)

SpecLong == Init /\ [][NextLong]_vars

\* ------------------------------------ the connection of either end point
\* Connection.__init__ on a websocket that connect() or accept() returned
InitRole ==
    /\ ConnInit
    /\ role \in {"client", "server"}
    /\ call = NoCall
    /\ ret = NoRet
    /\ HsIdle

SpecRole == InitRole /\ [][Next]_vars

\* --------------------------- reserved bits, and close() called again
\* The connection with, besides the calls and frames of Next, received
\* frames whose RSV1 bit is set (no extension is installed), and a user
\* who calls close() once more when close() has raised.
Rsv1InFrames ==
    IF peer_eof THEN {}
    ELSE {[f EXCEPT !.rsv1 = TRUE] :
             f \in {Frame(OPCODE_TEXT, <<1>>, TRUE),
                    ControlFrame(OPCODE_PING, <<1>>),
                    ControlFrame(OPCODE_CLOSE, PackH(CLOSE_NORMAL))}}

CallCloseAgain(code, reason) ==
    /\ pc = "idle"
    /\ last_op = "close"
    /\ exc # ""
    /\ nops <= MaxOps
    /\ nops' = nops + 1
    /\ LET s == close_send(Cur, code, reason)
       IN  /\ Commit(s)
           /\ pc' = IF s.exc # "" THEN "idle" ELSE "close"
           /\ exc' = s.exc
    /\ UNCHANGED <<ext_vars, fragments, result, last_op, peer_eof, last_recv,
                   nrecv, s_vars>>

NextAgain ==
    \/ Next
    \/ \E in \in Rsv1InFrames, cb_raises \in BOOLEAN :
           ReceiveForeverStep(in, cb_raises)
    \/ \E in \in Rsv1InFrames : RecvStep(in)
    \/ \E a \in CloseArgs : CallCloseAgain(a[1], a[2])

SpecAgain == Init /\ [][NextAgain]_vars

\* The user goes on using the connection when close() has raised: with
\* op "recv" the user calls recv(), with "send_ping" send_ping(payload),
\* with "send" send(message, fragment_size, mask).
CallAfterClose(op, message, fragment_size, masking_key) ==
    /\ pc = "idle"
    /\ last_op = "close"
    /\ exc # ""
    /\ nops <= MaxOps
    /\ nops' = nops + 1
    /\ last_op' = op
    /\ result' = NoMessage
    /\ IF op = "recv"
       THEN /\ pc' = "recv"
            /\ fragments' = <<>>
            /\ exc' = ""
            /\ UNCHANGED conn_vars
       ELSE LET s == IF op = "send_ping"
                     THEN send_ping(Cur, message.payload)
                     ELSE send(Cur, message, fragment_size, masking_key)
            IN  /\ Commit(s)
                /\ exc' = s.exc
                /\ UNCHANGED <<pc, fragments>>
    /\ UNCHANGED <<ext_vars, peer_eof, last_recv, nrecv, s_vars>>

NextAfter ==
    \/ Next
    \/ \E op \in {"recv", "send_ping", "send"}, m \in OutMessages,
          n \in FragmentSizes, k \in MaskArgs : CallAfterClose(op, m, n, k)

SpecAfter == Init /\ [][NextAfter]_vars

\* ========================================================== the claims
IsDataFrame(f) == f.opcode \in 0..7

Count(cb) == Cardinality({i \in DOMAIN events : events[i].cb = cb})

\* a step in which sock.recv() gave a frame
Received == nrecv' = nrecv + 1 /\ last_recv' # EOF

InRecv == pc \in {"recv", "receive_forever"}

LastWritten == wire[Len(wire)]

\* the code and reason a CLOSE payload carries
CloseCode(payload) ==
    IF payload = <<>> THEN PyNone ELSE PyInt(UnpackH(SubSeq(payload, 1, 2)))
CloseReason(payload) == SubSeq(payload, 3, Len(payload))

\* C1: onclose is invoked at most once, and it has been invoked once
\* receive_forever or close() has ended.
C1_OncloseExactlyOnce ==
    /\ Count("onclose") <= 1
    /\ (pc = "idle" /\ last_op \in {"receive_forever", "close"})
           => Count("onclose") = 1

\* C2: a CLOSE (code, reason) received before a CLOSE was sent is echoed by
\* one CLOSE with the same payload, then onclose(code, reason) is invoked,
\* the transport is closed, the receive loop ends with the Closed signal and
\* both close flags are set.
C2_CloseEchoed ==
    [][(Received /\ InRecv /\ ~close_frame_sent
          /\ last_recv'.opcode = OPCODE_CLOSE /\ Len(last_recv'.payload) # 1)
       => /\ wire' = Append(wire, ControlFrame(OPCODE_CLOSE, last_recv'.payload))
          /\ events' = Append(events,
                 Ev("onclose", CloseCode(last_recv'.payload),
                    CloseReason(last_recv'.payload), ""))
          /\ sock' = "closed"
          /\ pc' = "idle"
          /\ exc' = (IF pc = "recv" THEN "SocketClosed" ELSE "")
          /\ close_frame_sent' /\ close_frame_received']_vars

WellFormedWith(frame) ==
    LET fr == Append(fragments, frame)
    IN  /\ frame.final
        /\ fr[1].opcode # OPCODE_CONTINUATION
        /\ \A i \in 2..Len(fr) : fr[i].opcode = OPCODE_CONTINUATION

\* C5: when the final frame of a well-formed fragment sequence arrives,
\* recv() returns a message with the first fragment's opcode and the
\* concatenated payloads (receive_forever passes it to onmessage).
C5_MessageAssembled ==
    [][(Received /\ InRecv /\ IsDataFrame(last_recv')
          /\ WellFormedWith(last_recv'))
       => LET fr == Append(fragments, last_recv')
              m == Message(fr[1].opcode, concat_payloads(fr))
          IN  IF pc = "recv"
              THEN result' = m /\ exc' = "" /\ pc' = "idle"
              ELSE /\ Len(events') > Len(events)
                   /\ events'[Len(events) + 1] =
                          Ev("onmessage", PyInt(m.opcode), m.payload, "")]_vars

\* C6: a CONTINUATION data frame received while no message is in progress
\* makes recv() raise.
C6_ContinuationFirstRejected ==
    [][(Received /\ InRecv /\ fragments = <<>>
          /\ last_recv'.opcode = OPCODE_CONTINUATION)
       => pc' = "idle" /\ exc' # ""]_vars

\* a data frame other than CONTINUATION arrives while a message is in progress
FragmentRuleBroken ==
    /\ Received /\ InRecv
    /\ fragments # <<>>
    /\ IsDataFrame(last_recv')
    /\ last_recv'.opcode # OPCODE_CONTINUATION

IsCloseWithCode(f, code) ==
    /\ f.opcode = OPCODE_CLOSE
    /\ Len(f.payload) >= 2
    /\ SubSeq(f.payload, 1, 2) = PackH(code)

\* C8: when recv detects a broken fragmentation rule, a CLOSE frame with
\* status code 1002 is written to the transport.
C8_ViolationClosesWith1002 ==
    [][FragmentRuleBroken
       => \E i \in DOMAIN wire' :
              i > Len(wire) /\ IsCloseWithCode(wire'[i], CLOSE_PROTOCOL_ERROR)]_vars

\* C9: while send() on the second thread is between its first and its last
\* fragment and the main thread receives, sends or pings, the frames that
\* send() has written are the last frames on the transport.
C9_FragmentsContiguous ==
    (s_pc = "send" /\ s_done # <<>> /\ last_op # "close")
        => /\ Len(wire) >= Len(s_done)
           /\ SubSeq(wire, Len(wire) - Len(s_done) + 1, Len(wire)) = s_done

\* C10: a PONG that echoes the payload of the PING that send_ping has
\* written on the second thread is not rejected with PingError.
C10_PongAfterWrittenPing ==
    [][(Received /\ InRecv /\ last_recv'.opcode = OPCODE_PONG
          /\ s_pc \in {"ping_written", "ping_payload_set"}
          /\ last_recv'.payload = s_arg)
       => exc' # "PingError"]_vars

\* C11: for every data frame F and every fragment size n >= 1,
\* fragment(F, n) yields frames whose payloads have at most n bytes each and
\* concatenate in order to F.payload; exactly the first has F's opcode and
\* all others CONTINUATION; exactly the last is final.
C11_FragmentSplits ==
    (call.fn = "fragment" /\ ret # NoRet)
        => /\ ret.exc = ""
           /\ Len(ret.frames) >= 1
           /\ \A i \in DOMAIN ret.frames :
                  /\ Len(ret.frames[i].payload) <= call.size
                  /\ ret.frames[i].opcode =
                         (IF i = 1 THEN call.frame.opcode
                                   ELSE OPCODE_CONTINUATION)
                  /\ ret.frames[i].final = (i = Len(ret.frames))
           /\ concat_payloads(ret.frames) = call.frame.payload

\* the opcode's high bit
HighBit(opcode) == (opcode \div 8) % 2 = 1

\* C12: receive_frame applied to the bytes of F.pack() returns a frame equal
\* to F in final, rsv bits, opcode, masking key and unmasked payload, and it
\* is a ControlFrame exactly when the opcode's high bit is set.
C12_PackReceiveRoundTrip ==
    (call.fn = "receive_frame")
        => /\ ret.exc = ""
           /\ ret.frame.final = call.frame.final
           /\ ret.frame.rsv1 = call.frame.rsv1
           /\ ret.frame.rsv2 = call.frame.rsv2
           /\ ret.frame.rsv3 = call.frame.rsv3
           /\ ret.frame.opcode = call.frame.opcode
           /\ ret.frame.masking_key = call.frame.masking_key
           /\ ret.frame.payload = call.frame.payload
           /\ IsControlFrame(ret.frame) <=> HighBit(call.frame.opcode)

\* the three length encodings, told by a length's 8 bytes
Fits7(n) == (\A i \in 1..7 : n[i] = 0) /\ n[8] <= 125
Fits16(n) == (\A i \in 1..6 : n[i] = 0) /\ ~Fits7(n)
Fits63(n) == n[1] < 128 /\ ~Fits7(n) /\ ~Fits16(n)

\* bytes are the second header byte and the extended length for a payload
\* of n bytes, in the smallest encoding that fits
SmallestEncoding(bytes, mask_bit, n) ==
    /\ Fits7(n) => bytes = <<mask_bit + n[8]>>
    /\ Fits16(n) => bytes = <<mask_bit + 126, n[7], n[8]>>
    /\ Fits63(n) => bytes = <<mask_bit + 127>> \o n

\* C13: Frame.pack selects the smallest length encoding that fits (7 bits
\* up to 125 bytes, 126 and 16 bits big-endian up to 65535, 127 and 64 bits
\* big-endian up to 2^63 - 1), refuses payloads of 2^63 bytes or more, and
\* sets the MASK bit exactly when a masking key is present.
C13_SmallestLengthEncoding ==
    /\ (call.fn = "pack_len" /\ ret # NoRet)
           => LET n == call.payload_len
                  keyed == call.frame.masking_key # <<>>
              IN  IF Fits7(n) \/ Fits16(n) \/ Fits63(n)
                  THEN /\ ret.exc = ""
                       /\ SmallestEncoding(ret.bytes, 128 * Bit(keyed), n)
                       /\ (ret.bytes[1] >= 128) <=> keyed
                  ELSE ret.exc # "" /\ ret.bytes = <<>>
    /\ (call.fn = "pack" /\ ret # NoRet /\ ~IsControlFrame(call.frame))
           => LET n == U64(Len(call.frame.payload))
                  keyed == call.frame.masking_key # <<>>
                  k == IF Fits7(n) THEN 1 ELSE 3
              IN  /\ ret.exc = ""
                  /\ Len(ret.bytes) = 1 + k + Len(call.frame.masking_key)
                                        + Len(call.frame.payload)
                  /\ SmallestEncoding(SubSeq(ret.bytes, 2, 1 + k),
                                      128 * Bit(keyed), n)
                  /\ (ret.bytes[2] >= 128) <=> keyed

\* a masked payload of 65536 bytes got the 64-bit length
C13_Witness ==
    /\ call.fn = "pack_len"
    /\ call.payload_len = U64(65536)
    /\ call.frame.masking_key # <<>>
    /\ ret # NoRet
    /\ ret.exc = ""
    /\ ret.bytes[1] = 255

\* C14: ControlFrame.pack rejects a payload longer than 125 bytes and gives
\* no bytes for it, so no control frame with a payload over 125 bytes is
\* ever written to the transport by send_ping, the PONG reply or the CLOSE
\* echo.
C14_NoLongControlFrameWritten ==
    \A i \in DOMAIN wire :
        IsControlFrame(wire[i]) => Len(wire[i].payload) <= 125

\* a PING of 125 bytes was written, then send_ping with 126 bytes was
\* refused and wrote nothing
C14_Witness ==
    /\ wire = <<ControlFrame(OPCODE_PING, Bytes(125))>>
    /\ ping_payload = SomePayload(Bytes(125))
    /\ last_op = "send_ping"
    /\ nops = 2
    /\ exc = "ValueError"

\* C15: every frame written by a connection acting as client carries a
\* masking key and every frame written by a connection acting as server
\* carries none: the data frames of send(), the PONG replies, the echoed
\* CLOSE and the PING of send_ping.  Stated here for the frames that
\* connection.py builds itself, which are all but the CLOSE frames.
C15_MaskedByRole ==
    \A i \in DOMAIN wire :
        wire[i].opcode # OPCODE_CLOSE
            => ((wire[i].masking_key # <<>>) <=> (role = "client"))

\* two extensions reserve the same rsv bit or share a reserved opcode
Conflict(a, b) ==
    \/ a.rsv1 /\ b.rsv1
    \/ a.rsv2 /\ b.rsv2
    \/ a.rsv3 /\ b.rsv3
    \/ a.opcodes \cap b.opcodes # {}

\* the elements of list at the indices in K from i on, in the list's order
RECURSIVE Sel(_, _, _)
Sel(list, K, i) ==
    IF i > Len(list) THEN <<>>
    ELSE (IF i \in K THEN <<list[i]>> ELSE <<>>) \o Sel(list, K, i + 1)

\* C16: filter_extensions returns a subsequence of its input, in the same
\* order, in which no two extensions reserve the same rsv bit or share a
\* reserved opcode; an extension is left out only if it conflicts with one
\* admitted earlier in the list, so the first is always admitted and
\* filtering the result again changes nothing.
C16_FilterExtensionsGreedy ==
    (call.fn = "filter_extensions" /\ ret # NoRet)
        => LET in == call.extensions
               out == ret.extensions
           IN  /\ \E K \in SUBSET DOMAIN in :
                      /\ out = Sel(in, K, 1)
                      /\ \A i \in (DOMAIN in) \ K :
                             \E j \in K : j < i /\ Conflict(in[i], in[j])
               /\ \A i, j \in DOMAIN out :
                      i # j => ~Conflict(out[i], out[j])
               /\ in # <<>> => (out # <<>> /\ out[1] = in[1])
               /\ filter_extensions(out) = out

\* mux was left out after deflate-frame, the extension after it was admitted
C16_Witness ==
    /\ call.fn = "filter_extensions"
    /\ call.extensions =
           <<DeflateFrame, Multiplex, Extension("b", FALSE, FALSE, FALSE, {3, 4})>>
    /\ ret # NoRet
    /\ ret.extensions =
           <<DeflateFrame, Extension("b", FALSE, FALSE, FALSE, {3, 4})>>

\* the handshake call has returned or raised
HsDone == hs.op # "" /\ hs.exc # "pending"

ServerOps == {"accept", "server_handshake", "ServerHandshake"}
ClientOps == {"client_handshake", "ClientHandshake"}

\* a 101 response was written to the socket
Sent101 ==
    \E i \in DOMAIN http_out : SubSeq(http_out[i].line, 1, 12) = "HTTP/1.1 101"

\* the line is GET <location> HTTP/1.1
IsGetLine(line) ==
    \E k \in 4..Len(line) :
        line = "GET " \o SubSeq(line, 5, k) \o " HTTP/1.1\r\n"

\* the request meets the conditions of the server handshake
RequestAcceptable(request) ==
    LET names == header_names(request.headers)
    IN  /\ IsGetLine(request.line)
        /\ \A i \in DOMAIN RequiredRequestHeaders :
               InList(RequiredRequestHeaders[i], names)
        /\ header(request.headers, "Sec-WebSocket-Version") = "13"
        /\ contains("websocket", lower(header(request.headers, "Upgrade")))
        /\ contains("upgrade", lower(header(request.headers, "Connection")))

\* C17: a server handshake writes the 101 response only to a request whose
\* line is GET <location> HTTP/1.1, that has the five required headers,
\* version 13, "websocket" in Upgrade and "upgrade" in Connection; to any
\* other request it raises HandshakeError, writes no 101 response and
\* closes the socket.
C17_ServerHandshakeValidates ==
    (HsDone /\ hs.op \in ServerOps) =>
        /\ Sent101 => RequestAcceptable(http_in)
        /\ ~RequestAcceptable(http_in) =>
               /\ hs.exc = "HandshakeError"
               /\ ~Sent101
               /\ wsock.sock = "closed"

\* the websocket the server has configured: the one accept() is called
\* on, or the one that shakes hands itself
Configured == IF hs.op = "accept" THEN listener ELSE wsock

\* the request's Origin is absent or not in the list
OriginUntrusted(request, trusted_origins) ==
    \/ ~InList("Origin", header_names(request.headers))
    \/ ~InList(header(request.headers, "Origin"), trusted_origins)

\* C18: a server websocket with a non-empty trusted_origins list sends no
\* 101 response to a request whose Origin is absent or not in the list,
\* also on the connections its accept() makes; and a request with
\* User-Agent but without Origin never gets a 101 response.
C18_UntrustedOriginRefused ==
    (HsDone /\ hs.op \in ServerOps) =>
        /\ (/\ Configured.trusted_origins # <<>>
            /\ OriginUntrusted(http_in, Configured.trusted_origins))
               => ~Sent101
        /\ (/\ InList("User-Agent", header_names(http_in.headers))
            /\ ~InList("Origin", header_names(http_in.headers)))
               => ~Sent101

\* the value of the response's header name; "-" if it has none
Returned(name) ==
    IF ~Sent101 \/ ~InList(name, header_names(http_out[1].headers)) THEN "-"
    ELSE header(http_out[1].headers, name)

\* the first entry of the client's list that the server supports, "-" if
\* the header is absent or no entry is supported
Chosen(request, protocols) ==
    LET client == split_stripped(header(request.headers,
                                        "Sec-WebSocket-Protocol"))
        hits == {i \in DOMAIN client : InList(client[i], protocols)}
    IN  IF hits = {} THEN "-"
        ELSE client[CHOOSE i \in hits : \A j \in hits : i <= j]

\* C19: a server handshake made on the configured websocket chooses the
\* first entry of the client's Sec-WebSocket-Protocol list that is among its
\* protocols; the 101 response has a Sec-WebSocket-Protocol header exactly
\* when there is such an entry, and the header's value is that entry.
C19_FirstSupportedProtocol ==
    (HsDone /\ hs.op \in {"server_handshake", "ServerHandshake"} /\ Sent101)
        => Returned("Sec-WebSocket-Protocol") = Chosen(http_in, wsock.protocols)

\* the extensions the client offered, as its request names them
OfferedExt ==
    split_stripped(header(http_out[1].headers, "Sec-WebSocket-Extensions"))

\* the extensions the server returned, in the server's order
ReturnedExt ==
    split_stripped(header(http_in.headers, "Sec-WebSocket-Extensions"))

\* the names of the client's active extensions
ActiveExt ==
    IF hs.op = "ClientHandshake" THEN ext_names(wsock.extensions)
    ELSE wsock.extensions

\* the response is a 101 response with nothing wrong but, possibly, its
\* extensions
ResponseInOrder ==
    LET protocol == header(http_in.headers, "Sec-WebSocket-Protocol")
    IN  /\ response_match(http_in.line) = [matched |-> TRUE, status |-> 101]
        /\ ~response_refused(http_in.headers, hs.key)
        /\ protocol \in {"", "null"} \/ InList(protocol, wsock.protocols)

\* C20: on a 101 response the client handshake fails if the server returns
\* an extension the client did not offer; it succeeds if the returned
\* extensions are any part of the offered ones, and then the client's
\* active extensions are the returned ones in the server's order.
C20_ClientTakesReturnedExtensions ==
    (HsDone /\ hs.op \in ClientOps /\ http_out # <<>> /\ ResponseInOrder) =>
        IF \E i \in DOMAIN ReturnedExt : ~InList(ReturnedExt[i], OfferedExt)
        THEN hs.exc = "HandshakeError"
        ELSE hs.exc = "" /\ ActiveExt = ReturnedExt

\* the client handshake is about to handle the response http_in
Handling(statuses) ==
    /\ hs.op \in ClientOps
    /\ hs.exc = "pending"
    /\ hs' # hs \/ http_out' # http_out
    /\ http_out # <<>> \/ hs.location # ""
    /\ response_match(http_in.line).matched
    /\ response_match(http_in.line).status \in statuses

\* the requests after the first that carry an Authorization header
AuthRetries ==
    {i \in 2..Len(http_out) :
        InList("Authorization", header_names(http_out[i].headers))}

\* C21: a client handshake sends at most one authenticated retry: a 401
\* response with a challenge that answers the authenticated retry makes
\* the handshake fail with HandshakeError and no further request is
\* written, so a server that always answers 401 does not keep the
\* handshake going.
C21_OneAuthenticatedRetry ==
    [][(/\ Handling({401})
        /\ InList("WWW-Authenticate", header_names(http_in.headers))
        /\ AuthRetries # {}) =>
           /\ hs'.exc = "HandshakeError"
           /\ http_out' = http_out]_vars

\* C22: the first 10 redirect responses of a client handshake that name a
\* location are followed by a new request; the 11th makes the handshake
\* fail with HandshakeError and no further request is written.
C22_TenRedirectsFollowed ==
    [][(/\ Handling(RedirectStatuses)
        /\ contains("://", header(http_in.headers, "Location"))) =>
           IF Len(http_out) <= MAX_REDIRECTS
           THEN hs'.exc = "pending" /\ Len(http_out') = Len(http_out) + 1
           ELSE hs'.exc = "HandshakeError" /\ http_out' = http_out]_vars

\* C23: while close() waits for the peer's CLOSE, a data frame or a PING
\* that arrives is handled and close() goes on waiting: it does not fail.
C23_CloseReadsUntilPeerClose ==
    [][(/\ pc = "close"
        /\ ~close_frame_received
        /\ nrecv' = nrecv + 1
        /\ last_recv' # EOF
        /\ last_recv' \in {Frame(OPCODE_TEXT, <<1>>, TRUE)}
                             \cup {ControlFrame(OPCODE_PING, p) :
                                      p \in Payloads}) =>
           /\ exc' = ""
           /\ pc' = "close"]_vars

CloseFramesWritten == {i \in DOMAIN wire : wire[i].opcode = OPCODE_CLOSE}

\* C24: over any sequence of calls and received frames at most one CLOSE
\* frame is written to the transport: a close() called when a CLOSE frame
\* has been sent writes none.
C24_OneCloseFrameWritten == Cardinality(CloseFramesWritten) <= 1

\* C26: a received frame with RSV1 set, on a connection without extension,
\* is rejected: it is not part of a message that onmessage gets, and it is
\* not handled as a control frame, so nothing is written in reply, no
\* callback is invoked for it and the close state is as before.
C26_Rsv1Rejected ==
    [][(Received /\ last_recv'.rsv1) =>
           /\ wire' = wire
           /\ \A i \in (Len(events) + 1)..Len(events') :
                  events'[i].cb \notin {"onmessage", "onpong"}
           /\ close_frame_received' = close_frame_received]_vars

\* a step of receive_forever in which recv() raises SocketClosed
ClosedSignal ==
    /\ pc = "receive_forever"
    /\ nrecv' = nrecv + 1
    /\ recv(Cur, fragments, last_recv').s.exc = "SocketClosed"

NewEvents == {events'[i] : i \in (Len(events) + 1)..Len(events')}

HandshakeBegun == IF hs.op \in ServerOps THEN HsDone ELSE http_out # <<>>

\* C27: once a byte of the handshake was read or written, also in a
\* handshake that failed, enable_ssl raises an error and leaves the socket
\* and the secure flag as they were.
C27_NoSslAfterHandshakeByte ==
    [][(hs.ssl = "pending" /\ hs'.ssl # "pending" /\ HandshakeBegun) =>
           /\ hs'.ssl # ""
           /\ wsock'.sock = wsock.sock
           /\ wsock'.secure = wsock.secure]_vars

\* the extensions the client offers to the server
ClientOffer ==
    split_stripped(header(http_in.headers, "Sec-WebSocket-Extensions"))

\* C28: ServerHandshake negotiates every offer list of a request that it
\* does not refuse: it returns with the 101 response sent, so that the
\* hooks of the accepted extensions are installed, also when the list
\* names an extension the server does not support.
C28_OfferListNegotiated ==
    (/\ HsDone
     /\ hs.op = "ServerHandshake"
     /\ hs.exc # "HandshakeError"
     /\ ClientOffer # <<>>) =>
        /\ hs.exc = ""
        /\ Sent101

\* the send hooks of the add_hook calls made so far, in the order of the
\* calls
Registered ==
    LET made == SubSeq(call.hooks, 1, ret.n)
        given == SelectSeq(made, LAMBDA h : h.send # 0)
    IN  [i \in DOMAIN given |-> given[i].send]

\* C29: add_hook without prepend places the send hook at the tail of
\* hooks_send and add_hook with prepend places it at the head, so after
\* calls that are all without prepend hooks_send, the order in which the
\* hooks are applied to a message, is the order of registration.
C29_SendHooksInRegistrationOrder ==
    (call.fn = "add_hook" /\ ret # NoRet) =>
        LET last == call.hooks[ret.n]
        IN  /\ (last.send # 0 /\ ~last.prepend) =>
                   ret.hooks_send[Len(ret.hooks_send)] = last.send
            /\ (last.send # 0 /\ last.prepend) =>
                   ret.hooks_send[1] = last.send
            /\ (\A i \in 1..ret.n : ~call.hooks[i].prepend) =>
                   ret.hooks_send = Registered

\* a step of close(): the call, or the frame that it waits for
InClose == pc = "close" \/ (nops' = nops + 1 /\ last_op' = "close")

\* C30: on every path that closes the transport (a peer CLOSE after the
\* local one, the echo of a peer CLOSE, an error inside receive_forever)
\* onclose is the callback invoked last before sock.close() is called; and
\* close() invokes onclose only when the peer's CLOSE has been received.
C30_OncloseBeforeTransportClose ==
    [][/\ \A i \in DOMAIN closes' :
              /\ closes'[i] >= 1
              /\ events'[closes'[i]].cb = "onclose"
       /\ (InClose /\ \E ev \in NewEvents : ev.cb = "onclose") =>
              close_frame_received']_vars

\* close() has got the peer's CLOSE: onclose was invoked, then the
\* transport was closed
C30_Witness ==
    /\ pc = "idle"
    /\ last_op = "close"
    /\ last_recv.opcode = OPCODE_CLOSE
    /\ close_frame_sent /\ close_frame_received
    /\ sock = "closed"
    /\ closes = <<Len(events)>>
    /\ events[Len(events)].cb = "onclose"

\* C31: fragment returns at least one frame for every data frame and
\* every fragment size >= 1, also for an empty payload; a payload that fits
\* in one fragment gives one frame, with the opcode of the frame and final.
C31_FragmentNeverEmpty ==
    (call.fn = "fragment" /\ ret # NoRet) =>
        /\ ret.exc = ""
        /\ Len(ret.frames) >= 1
        /\ Len(call.frame.payload) <= call.size =>
               /\ Len(ret.frames) = 1
               /\ ret.frames[1].opcode = call.frame.opcode
               /\ ret.frames[1].final

\* a step of receive_forever in which recv() or onmessage raises an error
\* that is not SocketClosed
ErrorRaised ==
    /\ pc = "receive_forever"
    /\ pc' = "idle" \/ events' # events
    /\ \/ recv(Cur, fragments, last_recv').s.exc \notin {"", "SocketClosed"}
       \/ exc' = "CallbackError"

\* C32: when recv() or onmessage raises an error other than SocketClosed
\* inside receive_forever, onerror is invoked once, with that error and
\* before onclose, the transport is closed and the loop ends; no message
\* is delivered to onmessage after an onerror.
C32_ErrorEndsLoop ==
    [][/\ ErrorRaised =>
              LET new == SubSeq(events', Len(events) + 1, Len(events'))
                  errors == {i \in DOMAIN new : new[i].cb = "onerror"}
              IN  /\ Cardinality(errors) = 1
                  /\ \A i \in errors :
                         /\ new[i].exc = exc'
                         /\ \E j \in DOMAIN new :
                                j > i /\ new[j].cb = "onclose"
                         /\ \A j \in 1..(i - 1) : new[j].cb # "onclose"
                  /\ sock' = "closed"
                  /\ pc' = "idle"
       /\ \A i \in DOMAIN events', j \in DOMAIN events' :
              (i < j /\ events'[i].cb = "onerror") =>
                  events'[j].cb # "onmessage"]_vars

\* the callback raised in onmessage: onerror and onclose followed, the
\* socket is closed and receive_forever has raised the error
C32_Witness ==
    /\ pc = "idle"
    /\ last_op = "receive_forever"
    /\ exc = "CallbackError"
    /\ sock = "closed"
    /\ Len(events) >= 3
    /\ events[Len(events) - 2].cb = "onmessage"
    /\ events[Len(events) - 1].cb = "onerror"
    /\ events[Len(events)].cb = "onclose"

\* C33: the deflate-frame recv hook fails for every control frame with
\* RSV1 set, with an error that is not SocketClosed; a data frame with
\* RSV1 set and deflated data comes back with RSV1 cleared; a frame with
\* RSV1 clear comes back as it is. The send hook sets RSV1 on data frames
\* only and leaves a control frame as it is.
C33_DeflateFrameHooks ==
    /\ (call.fn = "Hook.recv" /\ ret # NoRet) =>
           IF ~call.frame.rsv1 THEN ret = [exc |-> "", frame |-> call.frame]
           ELSE IF IsControlFrame(call.frame)
           THEN ret.exc \notin {"", "SocketClosed"}
           ELSE ret.exc \in {"", "zlib.error"} /\ ~ret.frame.rsv1
    /\ (call.fn = "Hook.send" /\ ret # NoRet) =>
           /\ ret.exc = ""
           /\ IF IsControlFrame(call.frame) THEN ret.frame = call.frame
              ELSE ret.frame.rsv1

\* C34: reading the headers ends with an error when the peer closes the
\* stream before the blank line, and when more than 8 KiB have been read
\* without the blank line: the loop does not go on.
C34_HeaderReadingTerminates ==
    [][(/\ hs.op = "receive_headers"
        /\ hs'.reads = hs.reads + 1
        /\ hs'.eof \/ (hs'.nbytes > 8 * 1024 /\ hs'.exc # "")) =>
           hs'.exc \notin {"", "pending"}]_vars

\* C35: once close_frame_sent is true no further frame is written to the
\* transport, by a PONG that answers a PING, by send() or by send_ping().
C35_NoFrameAfterClose == [][close_frame_sent => wire' = wire]_vars

\* C36: between the operations of a connection ping_payload is None
\* exactly when ping_sent is false, also after a PONG was rejected with
\* PingError.
C36_PingFlagAndPayloadAgree ==
    pc = "idle" => ((ping_payload = NoPayload) <=> ~ping_sent)

\* C37: when a client or server handshake has ended with HandshakeError
\* the socket has been closed.
C37_HandshakeErrorClosesSocket ==
    hs.exc = "HandshakeError" => wsock.sock = "closed"

\* C38: when receive_forever returns or raises, the transport has been
\* closed, whatever ended the loop.
C38_LoopEndClosesTransport ==
    [][pc = "receive_forever" /\ pc' = "idle" => sock' = "closed"]_vars

\* C39: after add_hook calls that each pass a send and a recv hook, with
\* any mix of prepend values, hooks_recv is hooks_send in reverse order.
C39_RecvHooksReverseSendHooks ==
    (/\ call.fn = "add_hook"
     /\ ret # NoRet
     /\ \A i \in 1..ret.n : call.hooks[i].send # 0 /\ call.hooks[i].recv # 0)
    => /\ Len(ret.hooks_recv) = Len(ret.hooks_send)
       /\ \A i \in DOMAIN ret.hooks_send :
              ret.hooks_recv[i] = ret.hooks_send[Len(ret.hooks_send) + 1 - i]

\* C40: a received frame with a reserved control opcode (0xB..0xF) is a
\* ControlFrame; recv() and receive_forever() handle it without changing
\* the state of the connection, without writing to the transport and
\* without invoking a callback, and go on assembling the message with the
\* fragments collected so far. The frame read in the step has one of the
\* reserved opcodes; in the state in which it is read the same holds for
\* the frames of all five.
C40_ReservedControlIgnored ==
    [][(/\ pc \in {"recv", "receive_forever"}
        /\ nrecv' = nrecv + 1
        /\ last_recv'.opcode \in 11..15) =>
           /\ receive_frame(<<128 + last_recv'.opcode, 0>>) =
                  [exc |-> "", frame |-> last_recv']
           /\ IsControlFrame(last_recv')
           /\ UNCHANGED conn_vars
           /\ fragments' = fragments
           /\ pc' = pc
           /\ exc' = ""
           /\ \A o \in 11..15 :
                  /\ receive_frame(<<128 + o, 0>>).frame =
                         ControlFrame(o, <<>>)
                  /\ recv_frame(Cur, fragments, ControlFrame(o, <<>>)) =
                         [s |-> Cur, fragments |-> fragments,
                          done |-> FALSE, message |-> NoMessage]]_vars

\* recv() has handled a reserved control frame between the fragments of a
\* message
C40_Witness ==
    /\ pc = "recv"
    /\ last_recv.opcode \in 11..15
    /\ fragments # <<>>
====
